------------------------------- MODULE ParallelSort -------------------------------
(***************************************************************************)
(* make_SA of SuffixArrayNaive (inc/SuffixArrayNaive.hpp:54-83): -n sorts  *)
(* the suffixes with std::sort, -np with tbb::parallel_sort                *)
(* (inc/tbb-2019_U4/include/tbb/parallel_sort.h): a test whether they are  *)
(* sorted already, in chunks that any thread may take and that stop each   *)
(* other, and then a quicksort whose ranges any thread may take.           *)
(*                                                                         *)
(* parallel_for and its auto_partitioner (parallel_for.h, partitioner.h)   *)
(* are taken only as what ParallelFor shows of them: a range that can be   *)
(* divided is divided or worked on as it is, and ranges proceed in any     *)
(* order, a step at a time.                                                *)
(***************************************************************************)
EXTENDS SuffixOrder

CONSTANTS
  Corpora,       \* records [data, size]
  Grain,         \* grainsize and min_parallel_size, 500 in the code
  SerialCutoff,  \* serial_cutoff, 9
  Poll           \* a chunk looks every 64 cells whether it is cancelled

ASSUME CorporaAreTexts ==
  \A c \in Corpora : c.size \in Nat \ {0, 1} /\ c.data \in [0 .. c.size - 1 -> Int]

\* parallel_sort.h:168, "min_parallel_size is smaller than serial cutoff?"
ASSUME GrainAssumption ==
  SerialCutoff \in Nat /\ Grain \in Nat /\ Grain > SerialCutoff + 1 /\ Poll \in Nat \ {0}

VARIABLES
  text, p_mode,
  indices,    \* the suffix array; cell 1 is begin, cell text.size + 1 is end
  pc, k,
  chunks,     \* the ranges still tested: records [lo, hi, k]
  cancelled,  \* my_context
  ranges      \* the ranges still sorted: records [begin, size, at, i, j]

vars == <<text, p_mode, indices, pc, k, chunks, cancelled, ranges>>

n == text.size
-----------------------------------------------------------------------------
comp(a, b) == SuffixLess(text.data, n, a, b)

\* A definition marked "Bug:" is a mistake that a run has to notice; nothing uses it.
\* Bug: the second cell keeps its value.
HalfSwap(a, p, q) == [a EXCEPT ![p] = a[q]]

iter_swap(a, p, q) == [a EXCEPT ![p] = a[q], ![q] = a[p]]

\* std::sort on the cells [lo, hi) of a.
Sorted(a, lo, hi) ==
  LET S == {a[p] : p \in lo .. hi - 1}
  IN  [p \in DOMAIN a |->
         IF p \in lo .. hi - 1
           THEN CHOOSE s \in S : Cardinality({t \in S : comp(t, s)}) = p - lo
           ELSE a[p]]

median_of_three(a, b, l, m, r) ==
  IF comp(a[b + l], a[b + m])
    THEN IF comp(a[b + m], a[b + r]) THEN m ELSE IF comp(a[b + l], a[b + r]) THEN r ELSE l
    ELSE IF comp(a[b + r], a[b + m]) THEN m ELSE IF comp(a[b + r], a[b + l]) THEN r ELSE l

pseudo_median_of_nine(a, b, size) ==
  LET o == size \div 8
  IN  median_of_three(a, b, median_of_three(a, b, 0, o, o * 2),
                            median_of_three(a, b, o * 3, o * 4, o * 5),
                            median_of_three(a, b, o * 6, o * 7, size - 1))

QuickSortRange(b, s) == [begin |-> b, size |-> s, at |-> "ready", i |-> 0, j |-> 0]

Init ==
  /\ text \in Corpora /\ p_mode \in BOOLEAN
  /\ indices = [p \in 0 .. n |-> IF p = 0 THEN n ELSE p - 1]
  /\ pc = "sort" /\ k = 1
  /\ chunks = {} /\ cancelled = FALSE /\ ranges = {}
-----------------------------------------------------------------------------
\* std::sort: without -np, or because there is too little for several threads.
SortSerially ==
  /\ pc = "sort" /\ (p_mode => n < Grain)
  /\ indices' = Sorted(indices, 1, n + 1)
  /\ pc' = "done"
  /\ UNCHANGED <<text, p_mode, k, chunks, cancelled, ranges>>

Parallel ==
  /\ pc = "sort" /\ p_mode /\ n >= Grain
  /\ pc' = "check"
  /\ UNCHANGED <<text, p_mode, indices, k, chunks, cancelled, ranges>>

\* do_parallel_quick_sort: parallel_for has a context of its own, which is not cancelled.
QuickSort == pc' = "quick_sort" /\ ranges' = {QuickSortRange(1, n)}

\* The first cells are compared at once, before any chunk is made of the others.
CheckFirst ==
  /\ pc = "check" /\ k # 1 + SerialCutoff
  /\ IF comp(indices[k + 1], indices[k]) THEN QuickSort /\ UNCHANGED k
                                         ELSE k' = k + 1 /\ UNCHANGED <<pc, ranges>>
  /\ UNCHANGED <<text, p_mode, indices, chunks, cancelled>>

\* Bug: as if k had compared all cells up to k + 1.
FirstUntested == k + 2

\* The first cell that the chunks compare with the one before it: k is the last one
\* that CheckFirst has compared with the one before it.
FirstTested == k + 1

StartPretest ==
  /\ pc = "check" /\ k = 1 + SerialCutoff
  /\ chunks' = {[lo |-> FirstTested, hi |-> n + 1, k |-> FirstTested]}
  /\ pc' = "pretest"
  /\ UNCHANGED <<text, p_mode, indices, k, cancelled, ranges>>

\* blocked_range's splitting constructor, on a chunk nobody has begun with.
SplitChunk(c) ==
  /\ c.k = c.lo /\ c.hi - c.lo > 1
  /\ LET middle == c.lo + (c.hi - c.lo) \div 2
     IN  chunks' = (chunks \ {c}) \cup {[c EXCEPT !.hi = middle], [c EXCEPT !.lo = middle, !.k = middle]}
  /\ UNCHANGED <<text, p_mode, indices, pc, k, cancelled, ranges>>

\* quick_sort_pretest_body: the chunk is left at its end, when it looks and finds the
\* test cancelled (so is a chunk not begun with), or when it finds two cells in the
\* wrong order.
TestCell(c) ==
  LET looks == (c.k - c.lo) % Poll = 0
      leave == chunks' = chunks \ {c}
  IN  /\ \/ looks /\ cancelled /\ leave /\ UNCHANGED cancelled
         \/ /\ ~ (looks /\ cancelled)
            /\ IF comp(indices[c.k], indices[c.k - 1])
                 THEN leave /\ cancelled' = TRUE
                 ELSE /\ IF c.k + 1 = c.hi THEN leave
                         ELSE chunks' = (chunks \ {c}) \cup {[c EXCEPT !.k = @ + 1]}
                      /\ UNCHANGED cancelled
      /\ UNCHANGED <<text, p_mode, indices, pc, k, ranges>>

Pretest == pc = "pretest" /\ \E c \in chunks : SplitChunk(c) \/ TestCell(c)

\* Bug: what the first cells said is taken for all.
FirstAreSorted == k = 1 + SerialCutoff

\* The answer of the test, once parallel_for has returned.
IsSorted == ~ cancelled

EndPretest ==
  /\ pc = "pretest" /\ chunks = {}
  /\ IF IsSorted THEN pc' = "done" /\ UNCHANGED ranges ELSE QuickSort
  /\ UNCHANGED <<text, p_mode, indices, k, chunks, cancelled>>
-----------------------------------------------------------------------------
\* Bug: a range is never given back.
Leaves(r, S) == ranges' = ranges \cup S

\* The range r is replaced by S, as a task of parallel_for divides or works on it.
Becomes(r, S) == ranges' = (ranges \ {r}) \cup S

\* The splitting constructor of quick_sort_range, split_range up to the loop.
Split(r) ==
  /\ r.at = "ready" /\ r.size >= Grain
  /\ indices' = iter_swap(indices, r.begin, r.begin + pseudo_median_of_nine(indices, r.begin, r.size))
  /\ Becomes(r, {[r EXCEPT !.at = "down", !.i = 0, !.j = r.size]})

\* Bug: the scan does not stop at the key either.
IsNotSmaller(r, j) == ~ comp(indices[r.begin + j], indices[r.begin])

IsGreater(r, j) == comp(indices[r.begin], indices[r.begin + j])

\* do --j while the cell is greater than the key.
ScanDown(r) ==
  /\ r.at = "down"
  /\ Becomes(r, {[r EXCEPT !.j = @ - 1, !.at = IF IsGreater(r, r.j - 1) THEN "down" ELSE "up"]})
  /\ UNCHANGED indices

\* do ++i while the cell is smaller than the key: then the two cells are swapped,
\* unless the scans have met.
ScanUp(r) ==
  /\ r.at = "up" /\ r.i # r.j
  /\ LET s == [r EXCEPT !.i = r.i + 1]
     IN  IF s.i = s.j \/ comp(indices[r.begin + s.i], indices[r.begin])
           THEN Becomes(r, {s}) /\ UNCHANGED indices
           ELSE /\ Becomes(r, {[s EXCEPT !.at = "down"]})
                /\ indices' = iter_swap(indices, r.begin + s.i, r.begin + s.j)

\* Bug: the size of the right part counts two cells for the key.
PartsWithoutLast(r) ==
  {QuickSortRange(r.begin, r.j), QuickSortRange(r.begin + r.j + 1, r.size - (r.j + 2))}

\* The two new ranges; the cell j of the key is in neither.
Parts(r) ==
  {QuickSortRange(r.begin, r.j), QuickSortRange(r.begin + r.j + 1, r.size - (r.j + 1))}

\* partition: the key goes between the parts.
Partition(r) ==
  /\ r.at = "up" /\ r.i = r.j
  /\ indices' = iter_swap(indices, r.begin + r.j, r.begin)
  /\ Becomes(r, Parts(r))

\* quick_sort_body, on a range that cannot or need not be divided.
SortRange(r) ==
  /\ r.at = "ready"
  /\ indices' = Sorted(indices, r.begin, r.begin + r.size)
  /\ Becomes(r, {})

SortRanges ==
  /\ pc = "quick_sort"
  /\ \E r \in ranges : Split(r) \/ ScanDown(r) \/ ScanUp(r) \/ Partition(r) \/ SortRange(r)
  /\ UNCHANGED <<text, p_mode, pc, k, chunks, cancelled>>

\* parallel_for returns when no range is left.
EndQuickSort ==
  /\ pc = "quick_sort" /\ ranges = {}
  /\ pc' = "done"
  /\ UNCHANGED <<text, p_mode, indices, k, chunks, cancelled, ranges>>

Done == pc = "done" /\ UNCHANGED vars

Next ==
  \/ SortSerially \/ Parallel \/ CheckFirst \/ StartPretest \/ Pretest \/ EndPretest
  \/ SortRanges \/ EndQuickSort \/ Done

\* The thread that calls parallel_for works on its ranges until none is left.
Spec == Init /\ [][Next]_vars /\ WF_vars(Next)
-----------------------------------------------------------------------------
\* The cells of a range.
Cells(r) == r.begin .. r.begin + r.size - 1

\* The vector keeps all suffixes, and no two threads have a cell in common.
TypeOK ==
  /\ pc \in {"sort", "check", "pretest", "quick_sort", "done"}
  /\ {indices[p] : p \in 0 .. n} = 0 .. n /\ indices[0] = n
  /\ \A c \in chunks : 2 <= c.lo /\ c.lo <= c.k /\ c.k < c.hi /\ c.hi <= n + 1
  /\ \A r \in ranges : r.at \in {"ready", "down", "up"} /\ Cells(r) \subseteq 1 .. n
  /\ \A r, s \in ranges : r # s => Cells(r) \cap Cells(s) = {}

\* "bad ordering relation?" (parallel_sort.h:78), an assertion that is not compiled in:
\* no scan passes the other one, or leaves the range to either side.
ScansStayInside ==
  \A r \in ranges : r.at # "ready" => 0 <= r.i /\ r.i <= r.j /\ r.j <= r.size

\* A test that nobody has cancelled has no gap, whoever took which chunk: up to the
\* cells that are left in chunks each cell has been compared with the one before it,
\* the first ones and the seams of the chunks included.
PretestHasNoGap ==
  pc = "pretest" /\ ~ cancelled =>
    \A p \in 2 .. n :
      (\A c \in chunks : p \notin c.k .. c.hi - 1) => comp(indices[p - 1], indices[p])

\* "array[l..j) is less or equal to key" and so on (parallel_sort.h:91): two cells that
\* are not in the same range any more are where they belong, whatever the threads do in
\* the ranges.
RangesInOrder ==
  pc = "quick_sort" =>
    \A p, q \in 1 .. n :
      p < q /\ (\A r \in ranges : ~ {p, q} \subseteq Cells(r)) => comp(indices[p], indices[q])

\* What make_SA promises: the vector is the suffix array when it returns.
Contract == INSTANCE SuffixSort WITH out <- IF pc = "done" THEN indices ELSE << >>
SortsTheCorpus == Contract!Spec

\* The descents of the scans, the chunks and the ranges come to an end.
Termination == <>(pc = "done")
=============================================================================
