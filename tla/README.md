# SuffixArray: specifications, checks and proofs

TLA+ modules for the program in this repository: it builds the suffix array of a
text-file, keeps it in a data-file and searches it. This document says which part
each module models, what TLC checks, what TLAPS proves, and what is left out.
Paths are relative to the repository; `bu0.hpp` is
`inc/SuffixArrayInducedSorting_bu0.hpp`, the variant of the algorithm that
`inc/SuffixArray.hpp` includes.

## The system

One command is one run of one process. It parses its arguments, and then

* *creates*: reads a corpus, sorts its suffixes and writes a data-file;
* *creates and finds*: the same without the data-file, with a search instead;
* *finds*: reads a data-file and searches it.

| Component | State | Operations | Used by | What makes it correct |
|---|---|---|---|---|
| Command line (`parseModes.hpp`, `main`) | `modes`, two short arguments | constructor, `check_short_input`, dispatch | `main` | every argument counts once; the command decides what happens to files |
| Reading the corpus (`read_data`, `typeChecks.hpp`) | data, min, max | one pass over the file | constructor of `SuffixArray` | the text without newlines if so asked; exact bounds of its symbols |
| Induced sorting (`bu0.hpp`) | stack of levels; types, buckets and suffix array of the level | `toStack` and `fromStack`, each a row of loops | `init` | the suffix array, for every text; no index leaves its vector or bucket; it ends |
| Naive construction (`SuffixArrayNaive.hpp`) | the indices | `std::sort` or `tbb::parallel_sort` | `init` | the same contract, whatever the threads do |
| Parallel sort (`tbb/parallel_sort.h`, `parallel_for.h`, `partitioner.h`) | test chunks, ranges; tasks, their pools, join counts | pretest, partition, sort; execute, divide, offer, join | `make_SA` with `-np` | every cell tested or sorted by one thread; nothing returned too early; it ends |
| LCP array and LCP-LR rows (`LCPArrayNaive.hpp`) | `lcp`, `lcp_l`, `lcp_r` | `make_lcp`, `make_lcp_lr` | `init` with `-lcp` | common prefixes of neighbours; how far each prefix reaches |
| Search (`find_all_infix`) | what is left of the array, the range | binary search, verification, scan | `init`, `findInfixInF` | all occurrences and no others |
| Search with LCP arrays (`lower_bound`) | window, depth, flag | one probe per round | `find_all_infix` with `-lcp` | the same |
| Data-file (`write`, `read`) | the file | sequential writes and reads of fields | `init`, `findInfixInF` | what was saved is what is read |

Components call each other with plain function calls and hand over whole vectors.
The only state that outlives a process is the data-file, and the only concurrency
is between processes on that file and inside of `tbb::parallel_sort`. The hard
behaviours are therefore (a) the induction: unchecked writes to buckets, unsigned
counters that end at an invalid value, a recursion turned into a stack; (b) reads
behind the end of vectors in the LCP part; (c) a file written in place without
checks and read without checks.

## Modules

Vectors are functions on `0 .. size - 1`, as the code indexes them. A loop is an
action per round and an action that leaves it, so that the invariants hold in the
middle of a pass. A call is a phase of `pc`.

| Module | Models |
|---|---|
| `SuffixOrder` | the order of suffixes (`Comp`, `CompSeq`), and what a suffix array, an answer and a common prefix are |
| `SuffixSort` | abstract: what any construction algorithm promises to `init` |
| `SAIS` | `SuffixArrayInducedSorting`: `Classify` is `make_STypes`; `Count`, `MakeBuckets` the counting; `Guess` and `Place` are `guessSortLMS` and `LMSSort`; `InduceL`, `InduceS` the two passes; `Name`, `Collect` are `summarizeSA`; `Descend`, `Invert`, `Unwind`, `Return` are the loops of `operator()` with `Stack` and `RetSummarySA`. Implements `SuffixSort` |
| `ParallelSort` | `make_SA` of `SuffixArrayNaive` and `tbb::parallel_sort`: `CheckFirst`, `StartPretest`, `TestCell` are the test whether the vector is sorted already, `Split`, `ScanDown`, `ScanUp`, `Partition` one step each of `split_range`, `SortRange` the body. Implements `SuffixSort` |
| `TaskRanges` | abstract: what `parallel_for` promises to the sort |
| `ParallelFor` | `parallel_for` with the `auto_partitioner`: `Stolen` is `check_being_stolen`, `Spread` the loop of `execute`, `Balance`, `Fill`, `Demand`, `PopFront`, `Run`, `Leave` the rounds of `work_balance` with its `range_vector`, `Offer` is `offer_work` with `allocate_sibling`, `Join` a `flag_task` that is done. Implements `TaskRanges` |
| `Find` | `find_all_infix` without LCP arrays; `LowerBound` is a round of `std::lower_bound` |
| `LCPArray` | class `LCP`; every outcome of a comparison with memory behind `SA` or the data is possible |
| `LCPLR` | class `NaiveLCP_LR` |
| `LCPSearch` | `lower_bound` and `Find_if_unequal`; any of a set of symbols may stand behind the pattern; `RunsAway` is a comparison that starts behind the data |
| `LCPFind` | composes the three: what `init` does with `-lcp` and a pattern |
| `Store` | `write` and its helpers, `read` and its helpers, on a file of cells |
| `Modes` | the constructor of `Modes`, `check_short_input`, `main` |
| `ReadData` | `read_data`, `checkDataSizeIdxT` |
| `Archive` | abstract: what the program promises of a sequence of commands on one data-file |
| `Program` | composes `Modes`, `ReadData`, `Store`, the construction and the search: `main`, the constructor of `SuffixArray`, `init`, `findInfix`, `findInfixInF`, process after process. Implements `Archive` |
| `SuffixOrder_proofs`, `SAIS_proofs`, `ParallelSort_proofs`, `ParallelFor_proofs`, `Find_proofs`, `LCPFind_proofs`, `Store_proofs`, `Program_proofs` | the theorems and their proofs |
| `MC...` | the instances TLC checks |

What rests on what: `ParallelFor` implements `TaskRanges`, whose freedom is what
`ParallelSort` gives its threads; `ParallelSort` and `SAIS` implement `SuffixSort`, and
`Program` takes the result for granted, as it takes the answer of the search, which
`Find` establishes; `Program` implements `Archive`.

A definition marked `Bug:` is not part of a model. It is what a plausible mistake
would make of the definition after it, and is there to show that a property
notices: with it in the place of the definition the property named for it in
`PROJECT.json` fails.

### Where a model is coarser than the code

* `SAIS`: `Count` counts all symbols in one step, and `make_buckets` is called twice
  in the code, for heads and for tails, but fills both in one loop of the model. Each is a pure
  function of its arguments. `all_lms` is the operator `NextLMS`.
* `Find`: the loop that verifies the first hit is one step.
* `LCPArray`: a read behind `SA` yields an unknown suffix with unknown symbols, a
  superset of what memory can hold. A read that faults ends the program and is
  left out.
* `ParallelSort`: `std::sort` is one step on the cells of a range that no other thread
  may touch (`TypeOK`). A range nobody has begun with may be divided or worked on at any
  time, by any thread, which is more than the partitioner does. `is_cancelled` is read in the
  step of the comparison after it.
* `ParallelFor`: the scheduler below it is vendored too (`src/tbb/custom_scheduler.h`), but taken
  only as what it does with tasks: any free thread takes any spawned task, in any order, called
  stolen or not at will, and the count of its parent goes down when it is done (`HasThread`,
  `Becomes`, `Drop`, `Finish`). A body is one step, and so is the
  division of a `quick_sort_range`, at any cell. `range_vector` is a sequence instead of a
  ring. Reading `is_cancelled` and the step after it are one. The range that is offered and
  its removal from the pool are two (`Demand`, `PopFront`): the new task may run in between.
* `LCPSearch` by itself starts from exact rows (`ExactRows`); in `LCPFind` the rows are
  those of `LCPLR` over the entries of `LCPArray`.
* `Program`: construction and search are their contracts. A data-file that is not the
  image of a suffix array may give any reply, or none if `read` throws; `Archive` promises
  nothing of it. `-lcp` is the business of `LCPFind`, `-tc`
  of `Store`, and `-o` names the same data-file everywhere; corpora do not change.
* `Store`: a cell is a flag, a number, a symbol, a digit, or the two LCP rows of a
  position. Uninitialized variables and fields of another kind read as any value up
  to `MaxSize`. LCP rows that are not in the file are rows of zeros, and a vector whose size was
  not read may also be too large (`Throw`); the process then ends, as nobody catches
  the exception. A crash leaves a prefix of the cells: a file system that reorders
  writes could leave other holes.
* `Modes`: `-np` and the other algorithms only set a mode. Nothing is said about
  the text of a file name.

## Runs

| Run | Checks | Bounds and why they are enough |
|---|---|---|
| `sais` | The suffix array is the right one and there is one (`SortsTheCorpus`, refinement of `SuffixSort`), it ends (`Termination`). On the way: types (`STypesCorrect`), buckets (`InOwnBucket`, `NothingOverwritten`), every suffix placed before naming (`AllPlaced`), the summary ordered like the level it summarizes (`ReductionFaithful`, `SummarySorted`), the level at most half of the one below (`LevelsHalve`), and each cell final once it is written on the way up (`WayUpSorted`) | all texts of 2..8 symbols over two letters and 2..5 over three, with a gap and a least symbol that is not 0, so that `min` and empty buckets matter; and four of 17..20 symbols around the shortest text with three stack elements. `Invalid` is 255; that it is above every index is all the code uses |
| `parallel_sort` | the vector is the suffix array when `make_SA` returns (`SortsTheCorpus`, refinement of `SuffixSort`) and it returns (`Termination`). On the way: threads have no cell in common and no suffix is lost (`TypeOK`), the unguarded scans stay in their range (`ScansStayInside`), a test nobody cancelled has seen every pair of neighbours (`PretestHasNoGap`), and cells of different ranges are in their final order (`RangesInOrder`) | `Grain = 4` in the place of 500, `SerialCutoff = 1` of 9, `Poll = 2` of 64, all texts of 2..6 symbols over two letters and four longer ones of 8..10 symbols (sorted, sorted except at the end, two permuted): both sides of the limit between serial and parallel, several chunks with polls in between, two levels of partitions; from 8 cells on the offsets of the pseudo-median differ |
| `parallel_for` | no range is lost or done twice, and the call returns exactly when all are done (`ImplementsRanges`, refinement of `TaskRanges`); no task takes the parent of the root for a `flag_task` (`CastIsSound`); `Termination` | two threads; a blocked_range of 8 cells that is halved down to 1, with cancellation at any body; quick_sort_ranges of 7 and 3 cells, divided anywhere down to empty parts; one of 1 cell. `Grain = 2`, two initial chunks for each thread as in the code, a pool of 2 in the place of 8, so that it is full; depths modulo 4 from 2 on in the place of modulo 256 from 5 on, so that they wrap around |
| `find` | `AnswerExact`, `ScanIsExact`, `Partitioned`, and no index leaves `SA` (`TypeOK`) | all small texts with all patterns up to three symbols, symbols smaller, between and larger than those of the text included |
| `lcp_find` | in spite of the reads behind `SA`: entries are exact up to the greatest suffix (`ExactBeforeGreatest`), never too small (`NeverTooSmall`), and exact again after one exact entry (`Recovers`); the rows say how far any entries reach (`RowsReach`); whatever the entries are, the search ends (`Termination`). If they are exact: no comparison starts behind the data (`StartsInData`), the window keeps the hits (`WindowKeepsHits`), no false range is returned (`NoFalseHit`), and the answer is exact if no symbol of the corpus can stand behind the pattern (`ExactEntriesSuffice`) | texts of 2..6 symbols over two letters and of 2..4 over three, so that the greatest suffix is anywhere; patterns of 1..4; every outcome of every unknown comparison; behind the pattern a 0 or anything |
| `store` | a read that leaves its stream good and was not disturbed is exact, after crashes and failed streams too (`GoodReadIsExact`); a finished binary file reads back (`RoundTrip`); index strings of one width keep their values (`StringsKeepIndices`) | `MaxRuns = 2` runs of creation-mode, so that a second one overwrites a larger or a smaller file of the first; numbers up to `MaxSize = 3`; `Base = 2` in the place of 16, so that indices below 4 need two digits and leading zeros occur |
| `modes` | `ArgumentsCountOnce` (each mode, the algorithm included, against a definition that reads the list as a whole; corpus and pattern as -i and -f give them or, without -i, the short arguments), `ShortFormDecides` | all lists of up to four of ten words, the empty one included, and six longer ones for the limit of the short form |
| `program` | any sequence of commands does what the manual makes of the command lines (`ImplementsArchive`, refinement of `Archive`); the construction gets at least two symbols and their exact bounds (`CorpusFitsSort`); every command ends, after a crash of the one before it too (`CommandEnds`) | commands are not bounded in number: nothing but the data-file survives one, so there are finitely many states. Ten corpora, from none to seven symbols around the limit of a 3-bit index, with and without newlines; 29 command lines that create, search, find or are refused |
| `lcp_find_doc`, `lcp_search_doc`, `store_compressed`, `modes_find` | four places where the code does not do what its documentation says; each run ends with the behaviour that shows it | as above; `lcp_search_doc` starts from exact rows, `store_compressed` has one run of creation-mode |

`CHECK_DEADLOCK` is never switched off: a component that is done stutters in
`Done`, and in `Store` there is always another read.

**Fairness.** `SAIS` and `LCPFind` have `WF` of the next step: the caller waits for
the function and nothing stops the thread for good, so a step that can be taken is taken.
`ParallelSort` and `ParallelFor` have the same for all threads together: the thread that
calls `parallel_for` executes what is left if no other one does, and no thread is promised
anything. `Program` has `WF` of the steps of a process that runs; nobody has to start one,
and it may be killed. The others state no liveness.

## What the code does not do as documented

* `lcp_find_doc`: `LCPArrayNaive.hpp:30` compares the greatest suffix with the index behind the
  end of `SA`; the depth is carried on (line 33), so entries after it may be too large. The
  rows take them for common prefixes and the search takes the rows: a pattern that occurs is
  not found, or the range is too large.
* `lcp_search_doc`: `LCPArrayNaive.hpp:218` compares past the end of the pattern. If
  the memory there continues like the corpus, line 224 never sees the depth equal to the
  pattern's size, and a pattern that occurs is reported as not found.
* `store_compressed`: with `-tc` the loop at `SuffixArray.hpp:384` reads index strings
  until the stream fails. The LCP flag behind them becomes one more index, and
  `use_lcp` (line 411) stays uninitialized.
* `modes_find`: `-f` without `-i` is to be refused. With a short argument the code
  drops the pattern (`parseModes.hpp:140`) and writes a data-file; the error at
  `SuffixArray.cpp:54` cannot be reached.

The models show some more of this kind, which no run states: `write` looks at no
error and `init` reports success (`SuffixArray.hpp:175`); `read` returns true for the
rest of a file left by a killed writer (line 400), whose caller does not look at the stream
either, or ends the process with an exception of a vector that got an uninitialized size
(line 443); `checkDataSizeIdxT` narrows the
size before it compares it (`typeChecks.hpp:24`) and the program goes on anyway; a short form of eight arguments is
refused (`parseModes.hpp:134`); with `-i`, two short arguments are ignored.

## Proofs

TLAPS checks these for every value of the constants that the named assumptions
allow. They say of the corpora what `read_data` guarantees (`CorporaAssumption`,
`CorporaAreTexts`, `FilesAssumption`), of the suffix arrays and patterns what the
caller hands over (`IndexesAssumption`, `PatternsAssumption`), of the grain that it
is larger than the serial cutoff (`GrainAssumption`), of the partitioner
that there is a thread, a pool and a depth (`PartitionerAssumption`), of the data-file
that what is saved are two vectors with numbers in range (`SavesAssumption`) and that the base of the
index strings is at least 2 (`BaseAssumption`), and of the command lines that they are sequences of
words (`CommandsAssumption`).

* `SAIS_proofs!TypesAreRight`: `Spec => []STypesCorrect`, for every corpus and every
  level. `STypesCorrect` is not inductive: the descent makes the summary the next
  text, so it needs the summary to be a non-empty vector of the size `summS`, no
  larger than the level. `IInv` adds that the level and each stack element are
  well-formed (`LevelOK`, `StackOK`), the ranges of the loop variables (`ControlOK`),
  what the cells may hold (`CellsOK`), that the sentinel is named and position 0 or
  `n` is not (`NamingOK`), and that the summary grows slower than the scan
  (`CollectOK`). The step for `Classify` is the lemma `OneMoreType`.
* `SAIS_proofs!SortsEveryCorpus`: the construction by induced sorting implements `SuffixSort`,
  for every corpus, with all other safety properties of the run: `EntriesInOwnBucket` (`InOwnBucket`),
  `EverySuffixPlaced` (`AllPlaced`), `NoEntryIsLost` (`NothingOverwritten`),
  `ReductionIsFaithful` (`ReductionFaithful`), `SummaryIsSorted` (`SummarySorted`),
  `WayUpIsSorted` (`WayUpSorted`), `StackIsLogarithmic` (`LevelsHalve`).
  The argument is in two modules. The second part of `SuffixOrder_proofs` has the lemmas about
  one level, a record as on the stack, and knows no steps; `SAIS_proofs` has the invariant `JInv` (`SortingInductive`),
  with one lemma per action.
  - A position has a code: its symbol, then its type, L below S. Codes, compared one by one up
    to an LMS position, order the keys of the suffixes (`KeyLess`). Without that limit this is the order of
    the suffixes (`KeyIsLess`, `LessIsKey`); with it, suffixes with equal keys have
    equal LMS substrings (`SameSubOrder`).
  - The two passes are proved once for both directions, with the limit as parameter
    (`LPassOK`, `SPassOK`): all cells in use are sorted by their keys, all of the left part has
    handed on its left neighbours, and a bucket has room for what is still to come, because it is
    as large as the number of its suffixes (`CountsAre`, `NextBucket`). An entry is put next to
    one with a smaller or equal key and the same symbol, whose right neighbour the scan
    has passed before (`LPut`, `SPut`).
  - On the way down the first key of a pass ends at the LMS position itself, so any seed is
    sorted. After both passes the LMS substrings are in order, equal ones next to each other,
    so the names order them (`NamingTo`) and the shorter text is faithful
    (`NamesAreFaithful`).
  - Each element of the stack is a text that the next one summarizes (`StackLinked`). What
    comes back sorts its LMS suffixes (`SummaryOK`); they are seeded in that order, and now the
    passes sort without the limit: that is the suffix array (`OrderIsSuffixArray`), or what the
    next element waits for (`ReturnedOrder`).
* `ParallelSort_proofs!NaiveConstructionIsRight`: `make_SA` of the naive construction
  implements `SuffixSort`, for every corpus and every interleaving of the threads, with
  all invariants of the run: `ThreadsKeepApart` (`TypeOK`), `ScansNeedNoBounds`
  (`ScansStayInside`), `PretestMissesNothing` (`PretestHasNoGap`) and
  `PartitionsStayInOrder` (`RangesInOrder`). The invariant is that ranges have no cell in
  common and cells of different ranges are in order; a thread shuffles the cells of its
  own range only, which keeps that (`RangeStep`), and what a scan of
  `split_range` has seen bounds the next one (`Scanned`).
* `ParallelFor_proofs!ParallelForIsRight`: `parallel_for` with the partitioner implements
  `TaskRanges`, for any range, number of threads, capacity of the pools and depths; and
  `CastNeedsNoCheck` (`CastIsSound`). The invariant (`TreeOfJoins`) gives each task the
  places of the vector its range and pool still have: different tasks have none in common;
  what is below a join is strictly inside of the places of the join; and the count of
  a join is the number of its children. So a count of 0 at the root means that nothing is
  left: the widest join of those left would have a child that is wider or none at all
  (`NoneLeft`). A task that has offered a range and not yet popped it has what is left without that range
  (`Kept`). A task whose parent is the root
  never comes to ask it whether a sibling was stolen, because its depth and divisor are not
  0 (`RootOK`); for all others the depths may wrap around.
* `Find_proofs!FindIsExact`, with `SearchIsPartitioned`, `ScanKeepsToHits` and
  `IndicesStayInside`: the answer is exact for every corpus, suffix array and
  pattern. The invariant joins the partition of the binary search and the hits of
  the scan; the order of `SA` enters by four lemmas: suffixes left of a smaller one are
  smaller (`Monotone`), a hit is not smaller than the pattern (`HitNotSmaller`), the lower bound is a hit if there
  is one (`FirstIsHit`), and a suffix that `equal` accepts right of a hit is a hit
  (`OnlyHits`), although `equal` also accepts suffixes that are too short.
* `LCPFind_proofs`: every invariant of the run `lcp_find`, for every
  corpus, suffix array and pattern and whatever is read behind them.
  Of the entries: `EntriesAreLargeEnough` (`NeverTooSmall`), `ExactUpToGreatest`
  (`ExactBeforeGreatest`), `ErrorsWearOff` (`Recovers`); they rest on the lemma that the
  common prefix of suffix `i + 1` with its successor is at most one shorter than that of suffix `i`
  (`NextDepth`), so that the depth the loop carries on is never too large after an
  exact entry. Of the rows: `RowsSayHowFar` (`RowsReach`), with the least entry passed so
  far as invariant of each of the two loops. Of the search: `SearchStartsInData`, `WindowIsSafe`,
  `RangeIsExact` and `FindsAllWithExactEntries` (`StartsInData`, `WindowKeepsHits`,
  `NoFalseHit`, `ExactEntriesSuffice`); exact entries along a stretch of `SA` are the
  prefix its ends share (`Chain`, `RowIsExact`), so the window is always the set of the suffixes
  that share what has matched, or what the halving leaves of it.
* `Store_proofs!GoodReadsAreExact` (`GoodReadIsExact`), `WholeFilesReadBack` (`RoundTrip`) and
  `StringsAreExact` (`StringsKeepIndices`), for all that may be saved. The invariant (`IInv`) is
  that the file is the beginning of what its owner writes (`Written`), also when the
  owner was killed; that an undisturbed read with a good stream stands at the beginning of a
  field and has got all fields before it (`GotSoFar`); and that only the loop over the index
  strings makes the stream of a complete file fail (`AllRead`), so that in the binary form no
  size is left unread (`ThrowIInv`). `ImageLayout` says where the
  fields are. The value of an index string is that of the index by `NextDigit`: one digit
  more is one division by the base less, which is `DivDiv`, from the uniqueness of
  quotient and remainder. `^` is opaque to the provers; `Power` is a recursive function
  instead, and that there is one is itself proved (`PowersExist`).
* `Program_proofs`, for any commands one after the other and any words in them:
  `EveryArgumentCountsOnce` (`ArgumentsCountOnce`) and `ShortFormIsDecided` (`ShortFormDecides`). What makes an argument a value is read off
  backwards in the property, from the row of options before it, and forwards in the code, from a
  counter that advances in two places; one formula joins them: an argument is a value if and only if
  the one before it takes one and is none itself (`NextIsValue`). The invariant `ModesInv`
  says where the counter may stand, and of the arguments before it which value of each
  option and which algorithm is the last, which flags are given and which two arguments are
  the short ones, in their order (`Parsed`); of a command line that is through, which of these
  the modes hold (`Chosen`); and
  of one that is refused, why (`Refusable`). It also shows that the error at
  `SuffixArray.cpp:54` cannot be reached. `CorpusAlwaysFits` (`CorpusFitsSort`): at least two
  symbols and their exact bounds, in each process that gets to the construction.
* `SuffixOrder_proofs`: the lemmas about the order that the others rest on: it is a strict total
  order with the empty suffix first (`SuffixIrreflexive`, `SuffixTransitive`, `SuffixTotal`,
  `EmptyIsLeast`), neighbours compare by their first symbols and then like their right neighbours
  (`NeighbourOrder`), and in a sorted vector a suffix stands behind as many cells as there
  are smaller suffixes (`Ranks`).

The provers cannot instantiate the induction theorems of the library. Where an argument needs
an induction, the proofs take a least or a greatest counterexample
(`LeastElement`, from the well-foundedness of finite subsets, which the library has) and refute it.

Model-checked only: liveness everywhere (fairness and ENABLED are beyond the
prover), so that the two constructions return at all; that `Program` implements `Archive`; `LCPSearch`
on its own, whose actions the theorems of `LCPFind` are about; the value of `2 ^ Bits`. No module uses a RECURSIVE operator.

## Not modelled

* Printing (`print_range`) and timing, and the compile-time checks of `typeChecks.hpp`: no
  state depends on them.
* The three variants of induced sorting that no file includes.
* The data-file of a foreign program: `Store` reads files that some `write` began.
* The thread building blocks below and beside what `-np` uses. More than nine tenths of the
  lines of this repository are that library: its scheduler, allocator, flow graphs,
  containers, tests and examples (a PNG decoder, a bzip2, ray tracers). The program calls
  one function template of it, `tbb::parallel_sort`, and everything that is instantiated for
  it above the scheduler is modelled. The program's own code is about 1500 lines, and
  nearly all of its statements that change state are.

## Plan

1. *(done)* the order, `SAIS` with its contract, `Find`, the LCP part, the
   data-file, the command line, the corpus, and the first theorems.
2. *(done)* `ParallelSort`, `ParallelFor`; `Program`, with `Archive`; `LCPFind`.
3. Proofs. *(done)* the naive construction with its parallel sort and `parallel_for`, the LCP
   entries and rows and the search with them, the construction by induced sorting with all of its
   invariants, the data-file, the command line. *(open)* that `Program` implements `Archive`.
