-------------------------------- MODULE ParallelFor --------------------------------
(***************************************************************************)
(* tbb::parallel_for with an auto_partitioner, as parallel_quick_sort      *)
(* calls it (inc/tbb-2019_U4/include/tbb/parallel_for.h:43-145,            *)
(* partitioner.h:129-259, 282-296, 380-515): a task divides its range,     *)
(* offers one part as a new task and keeps the other, first while          *)
(* divisions are left to spread the work, then from a pool of ranges, when *)
(* another thread turns out to have stolen what it offered last. A tree of *)
(* join tasks with reference counts tells when all is done.                *)
(*                                                                         *)
(* The scheduler (inc/tbb-2019_U4/src/tbb/custom_scheduler.h) is taken     *)
(* only as what it does with a task: a spawned one is executed by any      *)
(* thread at any time, stolen or not, or dropped if the group is           *)
(* cancelled, and the count of its parent goes down when it is done.       *)
(***************************************************************************)
EXTENDS Integers, Sequences, FiniteSets, SequencesExt

CONSTANTS
  Wholes,     \* the ranges that parallel_for is called with: records [kind, size]
  Grain,      \* 500 for quick_sort_range, 2 for blocked_range
  Threads,    \* max_threads_in_arena
  Chunks,     \* __TBB_INITIAL_CHUNKS, 2
  Capacity,   \* __TBB_RANGE_POOL_CAPACITY, 8
  InitDepth,  \* __TBB_INIT_DEPTH, 5
  Depths      \* values of depth_t, 256 of an unsigned char

ASSUME PartitionerAssumption ==
  /\ Wholes \subseteq [kind : {"halves", "pivot"}, size : Nat \ {0}] /\ Grain \in Nat \ {0, 1}
  /\ {Threads, Chunks} \subseteq Nat \ {0} /\ Capacity \in Nat \ {0, 1}
  /\ Depths \in Nat /\ InitDepth \in 1 .. Depths - 1

VARIABLES
  kind, size,
  tasks,   \* start_for: records [range, parent, pc, divisor, depth, pool]
  joins,   \* flag_task and what the caller waits for: id -> [parent, refs, stolen]
  worked, cancelled, returned

vars == <<kind, size, tasks, joins, worked, cancelled, returned>>

\* The ranges that are nobody's work yet.
Begun(t) == t.pc \notin {"spawned", "spread"}

\* The pool without the copy that a new task has and that is still to be popped.
Kept(t) == IF t.pc = "pop" THEN Tail(t.pool) ELSE t.pool

RangesOf(t) == IF Begun(t) THEN {Kept(t)[p].range : p \in DOMAIN Kept(t)} ELSE {t.range}
Ready == UNION {RangesOf(t) : t \in tasks}

Contract == INSTANCE TaskRanges WITH ready <- Ready
-----------------------------------------------------------------------------
\* The parent of the root task, which is no flag_task.
Waiter == << >>

\* A definition marked "Bug:" is a mistake that a run has to notice; nothing uses it.
\* Bug: the factors are multiplied in the wrong order.
RoundedDivisor == (Threads \div 4) * 4 * Chunks

\* get_initial_auto_partitioner_divisor() / 4 * factor, times __TBB_INITIAL_CHUNKS.
InitialDivisor == ((4 * Threads) \div 4) * Chunks

Spawned(range, parent, divisor, depth) ==
  [range |-> range, parent |-> parent, pc |-> "spawned",
   divisor |-> divisor, depth |-> depth, pool |-> << >>]

\* start_for::run: the caller waits for the root task.
Init ==
  /\ \E w \in Wholes : kind = w.kind /\ size = w.size
  /\ tasks = {Spawned(Contract!Whole, Waiter, InitialDivisor, InitDepth)}
  /\ joins = [id \in {Waiter} |-> [parent |-> Waiter, refs |-> 1, stolen |-> FALSE]]
  /\ worked = {} /\ cancelled = FALSE /\ returned = FALSE

Becomes(t, S) == tasks' = (tasks \ {t}) \cup S

Deeper(depth) == (depth + 1) % Depths

\* set_ref_count of a join: the task, and the one it offers.
JoinRefs == 2

\* A name for the join of two tasks: from where the first one began to where the last
\* one will end.
JoinId(t) == <<t.range.lo, IF Begun(t) THEN Head(t.pool).range.hi ELSE t.range.hi>>

\* offer_work and allocate_sibling: a join takes the place of the task t, which goes on
\* as u below it, beside the new task for range.
Offer(t, u, range, divisor, depth) ==
  LET id == JoinId(t)
  IN  /\ Becomes(t, {[u EXCEPT !.parent = id], Spawned(range, id, divisor, depth)})
      /\ joins' = [x \in DOMAIN joins \cup {id} |->
                     IF x = id THEN [parent |-> t.parent, refs |-> JoinRefs, stolen |-> FALSE]
                               ELSE joins[x]]

\* The task returns; its join has a child less.
Finish(t) ==
  /\ Becomes(t, {})
  /\ joins' = [joins EXCEPT ![t.parent].refs = @ - 1]
-----------------------------------------------------------------------------
\* A thread is free for the task t, or executes it.
HasThread(t) == t.pc # "spawned" \/ Cardinality({u \in tasks : u.pc # "spawned"}) < Threads

\* check_being_stolen, of a task that has no divisions left: it gets one.
Divisor(t) == IF t.pc = "spawned" /\ t.divisor = 0 THEN 1 ELSE t.divisor

\* ... and that was stolen while its sibling still runs: it tells so, too.
Stolen(t) ==
  /\ t.pc = "spawned" /\ t.divisor = 0 /\ joins[t.parent].refs >= 2
  /\ Becomes(t, {[t EXCEPT !.pc = "spread", !.divisor = 1, !.depth = Deeper(IF @ = 0 THEN 1 ELSE @)]})
  /\ joins' = [joins EXCEPT ![t.parent].stolen = TRUE]
  /\ UNCHANGED <<worked, cancelled>>

\* The scheduler does not execute a task of a cancelled group.
Drop(t) == t.pc = "spawned" /\ cancelled /\ Finish(t) /\ UNCHANGED <<worked, cancelled>>

\* auto_partition_type::is_divisible.
Spreads(t) == Contract!Divisible(t.range) /\ (Divisor(t) > 1 \/ (Divisor(t) # 0 /\ t.depth # 0))

\* partition_type_base::execute: the range is divided, and the divisor with it; when
\* it is used up, depth is given for one more.
Spread(t) ==
  /\ t.pc \in {"spawned", "spread"} /\ Spreads(t)
  /\ LET depth == IF Divisor(t) > 1 THEN t.depth ELSE t.depth - 1
         half == Divisor(t) \div 2
     IN  \E d \in Contract!Divisions(t.range) :
           /\ Offer(t, [t EXCEPT !.pc = "spread", !.range = d[1], !.divisor = half, !.depth = depth],
                    d[2], half, depth)
           /\ worked' = worked \cup Contract!Settled(t.range, d)
  /\ UNCHANGED cancelled

\* work_balance: the range is worked on as it is, or a copy of it becomes the pool.
Balance(t) ==
  /\ t.pc \in {"spawned", "spread"} /\ ~ Spreads(t)
  /\ Becomes(t, {[t EXCEPT !.pool = <<[range |-> t.range, depth |-> 0]>>, !.divisor = Divisor(t),
                    !.pc = IF Contract!Divisible(t.range) /\ t.depth # 0 THEN "fill" ELSE "run"]})
  /\ UNCHANGED <<joins, worked, cancelled>>

\* range_vector::is_divisible, of its last range.
PoolDivisible(t) == Last(t.pool).depth < t.depth /\ Contract!Divisible(Last(t.pool).range)

\* while(!range_pool.empty() && !start.is_cancelled()): the loop goes on.
InPool(t) == t.pc = "fill" \/ (t.pc = "loop" /\ t.pool # << >> /\ ~ cancelled)

\* split_to_fill: the right part of the last range stays, the left one goes behind it.
Fill(t) ==
  /\ InPool(t) /\ Len(t.pool) < Capacity /\ PoolDivisible(t)
  /\ LET last == Last(t.pool)
         part(r) == [range |-> r, depth |-> last.depth + 1]
     IN  \E d \in Contract!Divisions(last.range) :
           /\ Becomes(t, {[t EXCEPT !.pc = "fill", !.pool = Front(@) \o <<part(d[2]), part(d[1])>>]})
           /\ worked' = worked \cup Contract!Settled(last.range, d)
  /\ UNCHANGED <<joins, cancelled>>

\* Bug: the pool is filled again without a look at what is in it.
Always(u) == TRUE

\* "was not enough depth to fork a task" (partitioner.h:451), but now there is.
FillsAgain(u) == PoolDivisible(u)

\* check_for_demand: if the task offered last was stolen, the first and greatest range
\* of the pool is offered (a copy of it, which may be executed before pop_front), or a
\* pool of one range is filled again.
Demand(t) ==
  /\ InPool(t) /\ ~ (Len(t.pool) < Capacity /\ PoolDivisible(t))
  /\ LET u == [t EXCEPT !.depth = Deeper(@)]
         f == Head(t.pool)
     IN  \/ /\ ~ joins[t.parent].stolen
            /\ Becomes(t, {[t EXCEPT !.pc = "run"]}) /\ UNCHANGED joins
         \/ /\ joins[t.parent].stolen /\ Len(t.pool) > 1
            /\ Offer(t, [u EXCEPT !.pc = "pop", !.divisor = @ \div 2],
                     f.range, t.divisor \div 2, (u.depth - f.depth) % Depths)
         \/ /\ joins[t.parent].stolen /\ Len(t.pool) = 1
            /\ Becomes(t, {[u EXCEPT !.pc = IF FillsAgain(u) THEN "loop" ELSE "run"]})
            /\ UNCHANGED joins
  /\ UNCHANGED <<worked, cancelled>>

\* Bug: the range that was offered stays in the pool.
NotPopped(pool) == pool

WithoutFirst(pool) == Tail(pool)

\* pop_front, and continue.
PopFront(t) ==
  /\ t.pc = "pop"
  /\ Becomes(t, {[t EXCEPT !.pool = WithoutFirst(@), !.pc = "loop"]})
  /\ UNCHANGED <<joins, worked, cancelled>>

\* run_body of the last range, and pop_back.
Run(t) ==
  /\ t.pc = "run"
  /\ worked' = worked \cup Contract!Cells(Last(t.pool).range)
  /\ cancelled' \in {cancelled} \cup (IF kind = "halves" THEN {TRUE} ELSE {})
  /\ Becomes(t, {[t EXCEPT !.pool = Front(@), !.pc = "loop"]})
  /\ UNCHANGED joins

\* ... and the loop ends.
Leave(t) ==
  /\ t.pc = "loop" /\ (t.pool = << >> \/ cancelled)
  /\ Finish(t)
  /\ UNCHANGED <<worked, cancelled>>

TaskStep ==
  /\ \E t \in tasks :
       \/ Drop(t)
       \/ /\ HasThread(t)
          /\ \/ Stolen(t) \/ Spread(t) \/ Balance(t)
             \/ Fill(t) \/ Demand(t) \/ PopFront(t) \/ Run(t) \/ Leave(t)
  /\ UNCHANGED <<kind, size, returned>>

\* The join of two tasks that have returned returns, too.
Join ==
  /\ \E id \in DOMAIN joins \ {Waiter} :
       /\ joins[id].refs = 0
       /\ joins' = LET rest == [x \in DOMAIN joins \ {id} |-> joins[x]]
                   IN  [rest EXCEPT ![joins[id].parent].refs = @ - 1]
  /\ UNCHANGED <<kind, size, tasks, worked, cancelled, returned>>

\* spawn_root_and_wait returns.
Return ==
  /\ ~ returned /\ joins[Waiter].refs = 0
  /\ returned' = TRUE
  /\ UNCHANGED <<kind, size, tasks, joins, worked, cancelled>>

Done == returned /\ UNCHANGED vars

Next == TaskStep \/ Join \/ Return \/ Done

\* The calling thread alone executes what is spawned if no other one does.
Spec == Init /\ [][Next]_vars /\ WF_vars(Next)
-----------------------------------------------------------------------------
\* What ParallelSort takes parallel_for to be: no range is lost or worked on twice,
\* however tasks are stolen and depths wrap around, and the call returns when, and only
\* when, nothing is left to do.
ImplementsRanges == Contract!Spec

\* "correctness of the cast relies on avoiding the root task" (partitioner.h:419): the
\* flag of a join is looked at only by tasks whose parent is one.
CastIsSound ==
  \A t \in tasks :
    (t.pc = "spawned" /\ t.divisor = 0) \/ InPool(t) => t.parent # Waiter

\* Dividing, stealing and offering come to an end, and every join finds its count at 0.
Termination == <>returned
=============================================================================
