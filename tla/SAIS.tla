---------------------------------- MODULE SAIS ----------------------------------
(***************************************************************************)
(* SuffixArrayInducedSorting (inc/SuffixArrayInducedSorting_bu0.hpp, the   *)
(* variant SuffixArray.hpp includes): the suffix array of a corpus by      *)
(* induced sorting, with a stack in the place of the recursion.            *)
(*                                                                         *)
(* Way down (dir = "down"), toStack at each level:                         *)
(*   classify -> buckets -> guess -> induceL -> induceS -> name -> collect *)
(* until the names of the LMS substrings are all different; way up         *)
(* (dir = "up"), fromStack at each level:                                  *)
(*   unwind -> buckets -> place -> induceL -> induceS.                     *)
(* One action is one iteration of the loop of the phase, and one more      *)
(* action leaves the loop for the next phase. The vectors are functions    *)
(* on 0..size-1 and k is the loop variable of the phase.                   *)
(***************************************************************************)
EXTENDS SuffixOrder, Sequences

CONSTANTS
  Corpora,   \* what read_data hands over: records [data, size, min, max]
  Invalid    \* idxT(-1), the index no suffix has

ASSUME CorporaAssumption ==
  \A c \in Corpora :
    /\ c.size \in 2 .. Invalid - 1 /\ c.min \in Nat /\ c.max \in Nat
    /\ c.data \in [0 .. c.size - 1 -> c.min .. c.max]
ASSUME InvalidAssumption == Invalid \in Nat

VARIABLES
  corpus,   \* the argument of operator(), with the min of the constructor
  pc, dir,  \* the phase, and whether it runs in toStack or in fromStack
  stack,    \* FirstStackElement and the Stack, the first at the bottom
  n, cont,  \* alph_cont and its size
  sub,      \* subtract at the first level, 0 at every other
  stypes, counts, idc,   \* STypes, counts, summIdc of the level
  alphS,                 \* summ_alph_s
  heads, tails,          \* the buckets
  slot,     \* the Heads or Tails the running loop works on
  sa,       \* guessedSA, suffIdc
  k,
  lms, name, bef,        \* lms, cur_name and lms_bef_fir of summarizeSA
  summary, summS         \* summary and its size

level   == <<n, cont, sub, stypes>>
buckets == <<counts, heads, tails>>
naming  == <<lms, name, bef>>
result  == <<idc, summary, summS, alphS>>
vars == <<corpus, pc, dir, stack, level, buckets, slot, sa, k, naming, result>>
-----------------------------------------------------------------------------
\* Bugs a run has to notice stand before the definition they would replace, marked
\* "Bug:". Bug: the counter stops at 0, as its test k # Invalid is never false.
PredSaturating(x) == IF x = 0 THEN 0 ELSE x - 1

\* idxT arithmetic: 0 - 1 is the invalid index.
Pred(x) == IF x = 0 THEN Invalid ELSE x - 1

\* std::vector::push_back on a vector v of size m.
Push(v, m, x) == [r \in 0 .. m |-> IF r = m THEN x ELSE v[r]]

\* make_STypes before its loop: the empty suffix is S, all others still L.
FreshTypes(m) == [i \in 0 .. m |-> i = m]

\* Bug: every S suffix, not only the leftmost.
IsS(i) == stypes[i]

\* idxIsLMSC; 0 is never tested.
IsLMS(i) == stypes[i] /\ ~stypes[i - 1]

\* The bucket of suffix j, an index of counts, heads and tails.
Bucket(j) == cont[j] - sub

PutAtHead(j) ==
  /\ sa' = [sa EXCEPT ![slot[Bucket(j)]] = j]
  /\ slot' = [slot EXCEPT ![Bucket(j)] = @ + 1]

\* Bug: the tail does not move.
PutAtSameTail(j) ==
  /\ sa' = [sa EXCEPT ![slot[Bucket(j)]] = j]
  /\ UNCHANGED slot

PutAtTail(j) ==
  /\ sa' = [sa EXCEPT ![slot[Bucket(j)]] = j]
  /\ slot' = [slot EXCEPT ![Bucket(j)] = @ - 1]

\* all_lms: where the LMS substring that starts at i ends (n for the last one,
\* and for the empty suffix, which stands before the first comparison).
NextLMS(i) ==
  CHOOSE e \in i .. n :
    /\ e = n \/ (e > i /\ IsLMS(e))
    /\ \A d \in i + 1 .. e - 1 : ~IsLMS(d)

\* std::equal on the half-open LMS substrings that start at a and at b.
SameSubstring(a, b) ==
  LET len == NextLMS(a) - a
  IN  /\ NextLMS(b) - b = len
      /\ \A d \in 0 .. len - 1 : cont[a + d] = cont[b + d]
-----------------------------------------------------------------------------
Init ==
  /\ corpus \in Corpora
  /\ pc = "classify" /\ dir = "down" /\ stack = << >>
  /\ n = corpus.size /\ cont = corpus.data /\ sub = corpus.min
  /\ alphS = corpus.max + 1
  /\ stypes = FreshTypes(n) /\ k = Pred(n - 1)
  /\ counts = << >> /\ heads = << >> /\ tails = << >> /\ slot = << >>
  /\ sa = << >> /\ lms = << >> /\ name = 0 /\ bef = 0
  /\ idc = << >> /\ summary = << >> /\ summS = 0

\* Bug: equal neighbours are S.
ClassifyEqualAsS ==
  /\ pc = "classify" /\ k # Invalid
  /\ stypes' = [stypes EXCEPT ![k] = ~ (cont[k] > cont[k + 1])]
  /\ k' = Pred(k)
  /\ UNCHANGED <<corpus, pc, dir, stack, n, cont, sub, buckets, slot, sa, naming, result>>

\* make_STypes: L if larger than the right neighbour, or equal to it and that is L.
Classify ==
  /\ pc = "classify" /\ k # Invalid
  /\ stypes' = [stypes EXCEPT ![k] =
                  ~ \/ cont[k] > cont[k + 1]
                    \/ cont[k] = cont[k + 1] /\ ~stypes[k + 1]]
  /\ k' = Pred(k)
  /\ UNCHANGED <<corpus, pc, dir, stack, n, cont, sub, buckets, slot, sa, naming, result>>

\* make_counts, over summ_alph_s - min symbols.
Count ==
  /\ pc = "classify" /\ k = Invalid
  /\ counts' = [c \in 0 .. alphS - sub - 1 |->
                  Cardinality({i \in 0 .. n - 1 : Bucket(i) = c})]
  /\ heads' = << >> /\ tails' = << >>
  /\ pc' = "buckets" /\ k' = 0
  /\ UNCHANGED <<corpus, dir, stack, level, slot, sa, naming, result>>

\* make_buckets: cell 0 of the suffix array belongs to the empty suffix.
MakeBuckets ==
  /\ pc = "buckets" /\ k \in DOMAIN counts
  /\ LET sum == IF k = 0 THEN 0 ELSE tails[k - 1]
     IN  /\ heads' = Push(heads, k, sum + 1)
         /\ tails' = Push(tails, k, sum + counts[k])
  /\ k' = k + 1
  /\ UNCHANGED <<corpus, pc, dir, stack, level, counts, slot, sa, naming, result>>

\* The call of guessSortLMS on the way down, of LMSSort on the way up: both take
\* a copy of the tails and an all-invalid suffix array.
BeginSeed ==
  /\ pc = "buckets" /\ k \notin DOMAIN counts
  /\ slot' = tails
  /\ sa' = [p \in 0 .. n |-> Invalid]
  /\ IF dir = "down" THEN pc' = "guess" /\ k' = 1
                     ELSE pc' = "place" /\ k' = summS - 1
  /\ UNCHANGED <<corpus, dir, stack, level, buckets, naming, result>>

\* guessSortLMS: the LMS suffixes in text order, each at the tail of its bucket.
Guess ==
  /\ pc = "guess" /\ k < n
  /\ IF IsLMS(k) THEN PutAtTail(k) ELSE UNCHANGED <<sa, slot>>
  /\ k' = k + 1
  /\ UNCHANGED <<corpus, pc, dir, stack, level, buckets, naming, result>>

\* Bug: the LMS suffixes in text order, the summary ignored.
PlaceUnsorted ==
  /\ pc = "place" /\ k > 1
  /\ PutAtTail(idc[k - 2])
  /\ k' = k - 1
  /\ UNCHANGED <<corpus, pc, dir, stack, level, buckets, naming, result>>

\* LMSSort: the LMS suffixes in the order of the suffixes of the summary; the
\* last two cells are the sentinel of the summary and its empty suffix.
Place ==
  /\ pc = "place" /\ k > 1
  /\ PutAtTail(idc[summary[k]])
  /\ k' = k - 1
  /\ UNCHANGED <<corpus, pc, dir, stack, level, buckets, naming, result>>

\* Bug: LInduceSort gets the tails.
EndSeedWithTails ==
  /\ \/ pc = "guess" /\ k >= n
     \/ pc = "place" /\ k <= 1
  /\ sa' = [sa EXCEPT ![0] = n]
  /\ slot' = tails
  /\ pc' = "induceL" /\ k' = 0
  /\ UNCHANGED <<corpus, dir, stack, level, buckets, naming, result>>

\* Bug: the scan begins behind the empty suffix.
EndSeedAtOne ==
  /\ \/ pc = "guess" /\ k >= n
     \/ pc = "place" /\ k <= 1
  /\ sa' = [sa EXCEPT ![0] = n]
  /\ slot' = heads
  /\ pc' = "induceL" /\ k' = 1
  /\ UNCHANGED <<corpus, dir, stack, level, buckets, naming, result>>

\* The end of either seeding, and the call of LInduceSort with the heads.
EndSeed ==
  /\ \/ pc = "guess" /\ k >= n
     \/ pc = "place" /\ k <= 1
  /\ sa' = [sa EXCEPT ![0] = n]
  /\ slot' = heads
  /\ pc' = "induceL" /\ k' = 0
  /\ UNCHANGED <<corpus, dir, stack, level, buckets, naming, result>>

\* LInduceSort: the left neighbour of the suffix scanned, if it is L.
InduceL ==
  /\ pc = "induceL" /\ k <= n
  /\ LET j == Pred(sa[k])
     IN  IF sa[k] # Invalid /\ j # Invalid /\ ~stypes[j]
           THEN PutAtHead(j) ELSE UNCHANGED <<sa, slot>>
  /\ k' = k + 1
  /\ UNCHANGED <<corpus, pc, dir, stack, level, buckets, naming, result>>

\* The call of SInduceSort with the tails.
BeginInduceS ==
  /\ pc = "induceL" /\ k > n
  /\ slot' = tails
  /\ pc' = "induceS" /\ k' = n
  /\ UNCHANGED <<corpus, dir, stack, level, buckets, sa, naming, result>>

\* SInduceSort: right to left, the left neighbour of the suffix scanned, if it is S.
InduceS ==
  /\ pc = "induceS" /\ k # Invalid
  /\ LET j == Pred(sa[k])
     IN  IF sa[k] # Invalid /\ j # Invalid /\ stypes[j]
           THEN PutAtTail(j) ELSE UNCHANGED <<sa, slot>>
  /\ k' = Pred(k)
  /\ UNCHANGED <<corpus, pc, dir, stack, level, buckets, naming, result>>

\* summarizeSA up to its naming loop.
BeginNaming ==
  /\ pc = "induceS" /\ k = Invalid /\ dir = "down"
  /\ lms' = [i \in 0 .. n |-> IF i = sa[0] THEN 0 ELSE Invalid]
  /\ name' = 0 /\ bef' = sa[0]
  /\ pc' = "name" /\ k' = 1
  /\ UNCHANGED <<corpus, dir, stack, level, buckets, slot, sa, result>>

\* Bug: every LMS substring is compared with the first one.
NameByFirst ==
  /\ pc = "name" /\ k <= n
  /\ IF sa[k] \in 1 .. n - 1 /\ IsLMS(sa[k])
       THEN /\ name' = IF SameSubstring(bef, sa[k]) THEN name ELSE name + 1
            /\ lms' = [lms EXCEPT ![sa[k]] = name']
            /\ UNCHANGED bef
       ELSE UNCHANGED naming
  /\ k' = k + 1
  /\ UNCHANGED <<corpus, pc, dir, stack, level, buckets, slot, sa, result>>

\* The naming loop: a new name when the LMS substring differs from the one before.
Name ==
  /\ pc = "name" /\ k <= n
  /\ IF sa[k] \in 1 .. n - 1 /\ IsLMS(sa[k])
       THEN /\ name' = IF SameSubstring(bef, sa[k]) THEN name ELSE name + 1
            /\ lms' = [lms EXCEPT ![sa[k]] = name']
            /\ bef' = sa[k]
       ELSE UNCHANGED naming
  /\ k' = k + 1
  /\ UNCHANGED <<corpus, pc, dir, stack, level, buckets, slot, sa, result>>

BeginCollect ==
  /\ pc = "name" /\ k > n
  /\ idc' = << >> /\ summary' = << >> /\ summS' = 0
  /\ pc' = "collect" /\ k' = 0
  /\ UNCHANGED <<corpus, dir, stack, level, buckets, slot, sa, naming, alphS>>

\* The collecting loop: the names and the positions they stand for, in text order.
Collect ==
  /\ pc = "collect" /\ k <= n
  /\ IF lms[k] # Invalid
       THEN /\ summary' = Push(summary, summS, lms[k])
            /\ idc' = Push(idc, summS, k)
            /\ summS' = summS + 1
       ELSE UNCHANGED <<summary, idc, summS>>
  /\ k' = k + 1
  /\ UNCHANGED <<corpus, pc, dir, stack, level, buckets, slot, sa, naming, alphS>>

\* make_tuple: what fromStack needs of the level.
StackElement ==
  [n |-> n, cont |-> cont, sub |-> sub, stypes |-> stypes, idc |-> idc, counts |-> counts]

\* toStack returns and two names are equal: toStack of the summary.
Descend ==
  /\ pc = "collect" /\ k > n /\ summS # name + 1
  /\ stack' = Append(stack, StackElement)
  /\ alphS' = name + 1
  /\ n' = summS /\ cont' = summary /\ sub' = 0
  /\ stypes' = FreshTypes(summS)
  /\ pc' = "classify" /\ k' = Pred(summS - 1)
  /\ UNCHANGED <<corpus, dir, buckets, slot, sa, naming, idc, summary, summS>>

\* Bug: the inverse without the cell of the empty suffix.
InvertUnshifted ==
  /\ pc = "collect" /\ k > n /\ summS = name + 1
  /\ stack' = Append(stack, StackElement)
  /\ alphS' = name + 1
  /\ summary' = [p \in 0 .. summS |->
                   IF \E i \in 0 .. summS - 1 : summary[i] = p
                     THEN CHOOSE i \in 0 .. summS - 1 : summary[i] = p
                     ELSE summS]
  /\ summS' = summS + 1
  /\ dir' = "up" /\ pc' = "unwind"
  /\ UNCHANGED <<corpus, level, buckets, slot, sa, k, naming, idc>>

\* toStack returns and all names differ: RetSummarySA inverts the summary, with
\* its empty suffix in cell 0.
Invert ==
  /\ pc = "collect" /\ k > n /\ summS = name + 1
  /\ stack' = Append(stack, StackElement)
  /\ alphS' = name + 1
  /\ summary' = [p \in 0 .. summS |->
                   IF \E i \in 0 .. summS - 1 : summary[i] + 1 = p
                     THEN CHOOSE i \in 0 .. summS - 1 : summary[i] + 1 = p
                     ELSE summS]
  /\ summS' = summS + 1
  /\ dir' = "up" /\ pc' = "unwind"
  /\ UNCHANGED <<corpus, level, buckets, slot, sa, k, naming, idc>>

\* fromStack of Stack.back(), of the first element at the end.
Unwind ==
  /\ pc = "unwind" /\ stack # << >>
  /\ LET top == stack[Len(stack)]
     IN  /\ n' = top.n /\ cont' = top.cont /\ sub' = top.sub
         /\ stypes' = top.stypes /\ idc' = top.idc /\ counts' = top.counts
  /\ stack' = SubSeq(stack, 1, Len(stack) - 1)
  /\ heads' = << >> /\ tails' = << >>
  /\ pc' = "buckets" /\ k' = 0
  /\ UNCHANGED <<corpus, dir, slot, sa, naming, summary, summS, alphS>>

\* Bug: the element of the first level is not processed.
ReturnEarly ==
  /\ pc = "induceS" /\ k = Invalid /\ dir = "up"
  /\ summary' = sa /\ summS' = n + 1
  /\ pc' = IF Len(stack) <= 1 THEN "done" ELSE "unwind"
  /\ UNCHANGED <<corpus, dir, stack, level, buckets, slot, sa, k, naming, idc, alphS>>

\* fromStack returns: the suffix array of the level is the summary of the next one.
Return ==
  /\ pc = "induceS" /\ k = Invalid /\ dir = "up"
  /\ summary' = sa /\ summS' = n + 1
  /\ pc' = IF stack = << >> THEN "done" ELSE "unwind"
  /\ UNCHANGED <<corpus, dir, stack, level, buckets, slot, sa, k, naming, idc, alphS>>

Done == pc = "done" /\ UNCHANGED vars

Next ==
  \/ Classify \/ Count \/ MakeBuckets \/ BeginSeed \/ Guess \/ Place \/ EndSeed
  \/ InduceL \/ BeginInduceS \/ InduceS \/ BeginNaming \/ Name \/ BeginCollect
  \/ Collect \/ Descend \/ Invert \/ Unwind \/ Return \/ Done

\* The algorithm is one sequential function call: it runs until it returns.
Spec == Init /\ [][Next]_vars /\ WF_vars(Next)
-----------------------------------------------------------------------------
\* The phases in which sa is the vector the level works on.
Sorting == {"guess", "place", "induceL", "induceS", "name", "collect"}

\* The types of the suffixes from .. m of the vector c of size m are right: S if
\* smaller than the suffix to the right, and the empty suffix is S.
TypesRight(c, m, st, from) ==
  /\ st[m]
  /\ \A i \in from .. m - 1 : st[i] <=> SuffixLess(c, m, i, i + 1)

\* make_STypes decides each type from one symbol and the type to the right. The
\* types so far say how the suffix compares with its right neighbour, at every
\* level, and the stack keeps them so until fromStack reads them again.
STypesCorrect ==
  /\ TypesRight(cont, n, stypes, IF pc = "classify" /\ k # Invalid THEN k + 1 ELSE 0)
  /\ \A r \in 1 .. Len(stack) : TypesRight(stack[r].cont, stack[r].n, stack[r].stypes, 0)

\* Heads grow and Tails shrink with no bounds check: whatever the order in which
\* the three passes fill them, an entry stands in the bucket of its first symbol,
\* never in the bucket next to it or outside of the vector.
InOwnBucket ==
  pc \in Sorting =>
    \A p \in 1 .. n : sa[p] # Invalid =>
      /\ sa[p] \in 0 .. n - 1
      /\ p \in heads[Bucket(sa[p])] .. tails[Bucket(sa[p])]

\* summarizeSA indexes all_lms with every entry of guessedSA and tests none for
\* invalid: two passes of induction have by then placed every suffix once.
AllPlaced ==
  pc \in {"name", "collect"} => {sa[p] : p \in 0 .. n} = 0 .. n

\* What the way down rests on: the suffixes of the summary are ordered as the LMS
\* suffixes of the level that they stand for.
ReductionFaithful ==
  pc = "collect" /\ k > n =>
    \A a, b \in 0 .. summS - 1 :
      SuffixLess(summary, summS, a, b) <=> SuffixLess(cont, n, idc[a], idc[b])

\* What the way up rests on: what RetSummarySA or fromStack hands to the level
\* below sorts the LMS suffixes of that level, its empty suffix in cell 1.
SummarySorted ==
  pc = "unwind" =>
    LET top == stack[Len(stack)]
    IN  /\ summS = Cardinality(DOMAIN top.idc) + 1
        /\ \A p \in 1 .. summS - 1 : summary[p] \in DOMAIN top.idc
        /\ top.idc[summary[1]] = top.n
        /\ \A p \in 1 .. summS - 2 :
             SuffixLess(top.cont, top.n, top.idc[summary[p]], top.idc[summary[p + 1]])

\* No two LMS positions are neighbours: a level with its sentinel is at most half
\* of the level below, which bounds the Stack by the logarithm of the corpus.
LevelsHalve ==
  LET size(r) == IF r > Len(stack) THEN n ELSE stack[r].n
  IN  dir = "down" => \A r \in 1 .. Len(stack) : 2 * size(r + 1) <= size(r) + 1

\* A cell is written over only where an S pass moves an LMS suffix to its place:
\* no seed falls on another one, and what the L pass has placed stays.
NothingOverwritten ==
  [][{pc, pc'} \subseteq Sorting =>
       \A p \in 0 .. n :
         sa[p] # Invalid /\ sa'[p] # sa[p] =>
           pc = "induceS" /\ sa[p] # 0 /\ IsLMS(sa[p])]_vars

\* On the way up every suffix is put where it stays. The cells that hold their
\* last value (in the S pass the L suffixes and the cells behind a tail) are sorted
\* after each step, whatever the gaps between them.
WayUpSorted ==
  dir = "up" /\ pc \in Sorting =>
    LET settled == {p \in 1 .. n :
                      /\ sa[p] # Invalid
                      /\ pc = "induceS" /\ stypes[sa[p]] => p > slot[Bucket(sa[p])]}
    IN  \A p, q \in settled : p < q => SuffixLess(cont, n, sa[p], sa[q])

\* The loops over unsigned counters end, and so does the descent.
Termination == <>(pc = "done")

\* The contract of operator(): one suffix array, and the right one.
Contract == INSTANCE SuffixSort WITH
  text <- corpus, out <- IF pc = "done" THEN summary ELSE << >>
SortsTheCorpus == Contract!Spec
=============================================================================
