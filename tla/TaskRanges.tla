-------------------------------- MODULE TaskRanges --------------------------------
(***************************************************************************)
(* What tbb::parallel_for with its auto_partitioner promises to            *)
(* parallel_quick_sort (inc/tbb-2019_U4/include/tbb/parallel_sort.h:163):  *)
(* a range nobody has begun with is divided or worked on, in any order,    *)
(* and the call returns when none is left. ParallelSort relies on it, and  *)
(* ParallelFor implements it.                                              *)
(***************************************************************************)
EXTENDS Integers

CONSTANTS
  Wholes,  \* what is to be worked on: records [kind, size]
  Grain    \* a smaller range is not divided

VARIABLES
  kind,       \* "halves", a blocked_range, or "pivot", a quick_sort_range
  size,       \* the cells are 0 .. size - 1
  ready,      \* the ranges nobody has begun with: records [lo, hi], hi not included
  worked,     \* the cells that need no more work
  cancelled,  \* the group is cancelled, by the body
  returned

vars == <<kind, size, ready, worked, cancelled, returned>>

Whole == [lo |-> 0, hi |-> size]
Cells(r) == r.lo .. r.hi - 1

\* is_divisible, of a quick_sort_range (grainsize 500) and of a blocked_range: more than
\* its grainsize of 1, which is a Grain of 2.
Divisible(r) == r.hi - r.lo >= Grain

\* The splitting constructors, left part first: a blocked_range is halved, the key of
\* a quick_sort_range is in neither part.
Divisions(r) ==
  IF kind = "halves"
    THEN LET middle == r.lo + (r.hi - r.lo) \div 2
         IN  {<<[r EXCEPT !.hi = middle], [r EXCEPT !.lo = middle]>>}
    ELSE {<<[r EXCEPT !.hi = m], [r EXCEPT !.lo = m + 1]>> : m \in Cells(r)}

\* The cell of the key, if the range r is divided into d.
Settled(r, d) == Cells(r) \ (Cells(d[1]) \cup Cells(d[2]))

Init ==
  /\ \E w \in Wholes : kind = w.kind /\ size = w.size
  /\ ready = {Whole} /\ worked = {} /\ cancelled = FALSE /\ returned = FALSE

Divide(r) ==
  /\ Divisible(r)
  /\ \E d \in Divisions(r) :
       /\ ready' = (ready \ {r}) \cup {d[1], d[2]}
       /\ worked' = worked \cup Settled(r, d)
  /\ UNCHANGED cancelled

\* The body; the one of the test for a sorted vector may cancel the group.
Work(r) ==
  /\ ready' = ready \ {r} /\ worked' = worked \cup Cells(r)
  /\ cancelled' \in {cancelled} \cup (IF kind = "halves" THEN {TRUE} ELSE {})

\* A cancelled group leaves ranges out.
Skip == cancelled /\ ready' \in SUBSET ready /\ UNCHANGED <<worked, cancelled>>

WorkOnRanges ==
  /\ ~ returned /\ (Skip \/ \E r \in ready : Divide(r) \/ Work(r))
  /\ UNCHANGED <<kind, size, returned>>

Return ==
  /\ ready = {} /\ returned' = TRUE
  /\ UNCHANGED <<kind, size, ready, worked, cancelled>>

Next == WorkOnRanges \/ Return

Spec == Init /\ [][Next]_vars
=============================================================================
