---------------------------- MODULE ParallelFor_proofs ----------------------------
(***************************************************************************)
(* parallel_for works on every range once and returns when it is done, for *)
(* any range, any number of threads, any capacity of the pools and any     *)
(* depths. A range takes places of the vector: its cells, or, if its key is*)
(* taken out when it is divided, one place more, so that an empty range has*)
(* one, too. Tasks have no places in common, the tasks and joins below a   *)
(* join are strictly inside of its places, and its count is the number of  *)
(* its children.                                                           *)
(***************************************************************************)
EXTENDS ParallelFor, FiniteSetTheorems, SequenceTheorems, TLAPS

\* The last place of a range that ends before hi.
End(k, hi) == IF k = "halves" THEN hi - 1 ELSE hi

CellRanges == [lo : Nat, hi : Nat]

RangeOK(k, m, r) == r \in CellRanges /\ r.lo <= End(k, r.hi) /\ r.hi <= m

\* A task still has the places range.lo .. LastPlace.
LastPlace(k, t) ==
  IF ~ Begun(t) THEN End(k, t.range.hi)
  ELSE IF Kept(t) = << >> THEN t.range.lo ELSE End(k, Kept(t)[1].range.hi)

\* The ranges of a pool that are the task's own, from the last one to the first.
PoolOK(k, m, t) ==
  /\ \A p \in DOMAIN Kept(t) : RangeOK(k, m, Kept(t)[p].range) /\ t.range.lo <= Kept(t)[p].range.lo
  /\ \A p, q \in DOMAIN Kept(t) : p < q => End(k, Kept(t)[q].range.hi) < Kept(t)[p].range.lo

Pieces == [range : CellRanges, depth : Nat]

Ids == {Waiter} \cup (Nat \X Nat)

Pcs == {"spawned", "spread", "fill", "pop", "run", "loop"}

TaskRecords ==
  [range : CellRanges, parent : Ids, pc : Pcs,
   divisor : Nat, depth : 0 .. Depths - 1, pool : Seq(Pieces)]

\* The task whose parent waits for all: it divides its range at once or works on all of it.
RootOK(t) ==
  /\ t.divisor # 0 /\ t.depth # 0 /\ t.pc \in {"spawned", "run", "loop"}
  /\ t.pc = "run" => Len(t.pool) = 1
  /\ t.pc = "loop" => t.pool = << >>

TaskOK(k, m, t) ==
  /\ t \in TaskRecords
  /\ RangeOK(k, m, t.range)
  /\ Begun(t) => PoolOK(k, m, t)
  /\ t.pc \in {"fill", "run"} => t.pool # << >>
  /\ t.pc = "pop" => Len(t.pool) > 1
  /\ t.parent = Waiter => RootOK(t)

\* The places from lo to last are strictly inside of those of the join x, or outside.
Inside(k, lo, last, x) ==
  x[1] <= lo /\ last <= End(k, x[2]) /\ (x[1] < lo \/ last < End(k, x[2]))

Outside(k, lo, last, x) == last < x[1] \/ End(k, x[2]) < lo

TasksOK(k, m, T) ==
  /\ IsFiniteSet(T)
  /\ \A t \in T : TaskOK(k, m, t)
  /\ \A t, u \in T : t # u => LastPlace(k, t) < u.range.lo \/ LastPlace(k, u) < t.range.lo

Inner(J) == DOMAIN J \ {Waiter}

JoinRecords == [parent : Ids, refs : Int, stolen : BOOLEAN]

JoinsOK(k, m, J) ==
  /\ IsFiniteSet(DOMAIN J) /\ Waiter \in DOMAIN J
  /\ J = [x \in DOMAIN J |-> J[x]]
  /\ \A x \in DOMAIN J : x \in Ids /\ J[x] \in JoinRecords
  /\ \A x \in Inner(J) :
       /\ x[1] <= End(k, x[2]) /\ x[2] <= m
       /\ J[x].parent \in DOMAIN J
       /\ J[x].parent # Waiter => Inside(k, x[1], End(k, x[2]), J[x].parent)

\* Where the tasks are in the tree of joins.
PlacesOK(k, T, J) ==
  \A t \in T :
    /\ t.parent \in DOMAIN J
    /\ t.parent # Waiter => Inside(k, t.range.lo, LastPlace(k, t), t.parent)
    /\ \A x \in Inner(J) : \/ Inside(k, t.range.lo, LastPlace(k, t), x)
                           \/ Outside(k, t.range.lo, LastPlace(k, t), x)

TasksOf(T, x) == {t \in T : t.parent = x}
JoinsOf(J, x) == {y \in Inner(J) : J[y].parent = x}

CountsOK(T, J) ==
  \A x \in DOMAIN J : J[x].refs = Cardinality(TasksOf(T, x)) + Cardinality(JoinsOf(J, x))

TreeOK(k, m, T, J) == TasksOK(k, m, T) /\ JoinsOK(k, m, J) /\ PlacesOK(k, T, J) /\ CountsOK(T, J)

WholeOK(k, m) == k \in {"halves", "pivot"} /\ m \in Nat \ {0}

IInv ==
  /\ WholeOK(kind, size)
  /\ TreeOK(kind, size, tasks, joins)
  /\ returned \in BOOLEAN
  /\ returned => joins[Waiter].refs = 0
-----------------------------------------------------------------------------
\* A pair is the name of a join, not of the one that waits.
LEMMA PairsAreInner ==
  ASSUME NEW a, NEW b
  PROVE  <<a, b>> # Waiter
BY DEF Waiter

\* One for one: the number stays.
LEMMA Exchange ==
  ASSUME NEW S, IsFiniteSet(S), NEW a \in S, NEW b, b \notin S \ {a}
  PROVE  Cardinality((S \ {a}) \cup {b}) = Cardinality(S)
<1>1. /\ IsFiniteSet(S \ {a}) /\ Cardinality(S \ {a}) = Cardinality(S) - 1
  BY FS_RemoveElement
<1>2. Cardinality((S \ {a}) \cup {b}) = Cardinality(S \ {a}) + 1
  BY <1>1, FS_AddElement
<1>3. Cardinality(S) \in Nat
  BY FS_CardinalityType
<1> QED BY <1>1, <1>2, <1>3

\* The ranges are sets of places.
LEMMA EndFacts ==
  ASSUME NEW k, NEW m, NEW r, RangeOK(k, m, r)
  PROVE  /\ r.lo \in Nat /\ r.hi \in Nat /\ End(k, r.hi) \in Int
         /\ r.lo <= End(k, r.hi) /\ End(k, r.hi) <= r.hi /\ r.hi <= m
BY DEF RangeOK, CellRanges, End

\* What a task keeps of its pool.
LEMMA KeptPool ==
  ASSUME NEW k, NEW m, NEW t, TaskOK(k, m, t)
  PROVE  Kept(t) \in Seq(Pieces) /\ (t.pc # "pop" => Kept(t) = t.pool)
<1>1. t.pool \in Seq(Pieces) /\ (t.pc = "pop" => Len(t.pool) > 1)
  BY DEF TaskOK, TaskRecords
<1>2. CASE t.pc = "pop"
  <2>1. t.pool # << >>
    BY <1>1, <1>2
  <2>2. Tail(t.pool) \in Seq(Pieces)
    BY <1>1, <2>1, HeadTailProperties
  <2> QED BY <1>2, <2>2 DEF Kept
<1>3. CASE t.pc # "pop"
  BY <1>1, <1>3 DEF Kept
<1> QED BY <1>2, <1>3

\* A task has at least one place left.
LEMMA PlacesOfTask ==
  ASSUME NEW k, NEW m, NEW t, TaskOK(k, m, t)
  PROVE  /\ t.range.lo \in Nat /\ LastPlace(k, t) \in Int /\ t.range.lo <= LastPlace(k, t)
         /\ t.parent \in Ids
<1>1. t.parent \in Ids /\ Kept(t) \in Seq(Pieces) /\ RangeOK(k, m, t.range)
  BY KeptPool DEF TaskOK, TaskRecords
<1>2. CASE ~ Begun(t)
  BY <1>1, <1>2, EndFacts DEF LastPlace
<1>3. CASE Begun(t) /\ Kept(t) = << >>
  BY <1>1, <1>3, EndFacts DEF LastPlace
<1>4. CASE Begun(t) /\ Kept(t) # << >>
  <2>1. 1 \in DOMAIN Kept(t)
    BY <1>1, <1>4
  <2>2. RangeOK(k, m, Kept(t)[1].range) /\ t.range.lo <= Kept(t)[1].range.lo
    BY <1>4, <2>1 DEF TaskOK, PoolOK
  <2>3. LastPlace(k, t) = End(k, Kept(t)[1].range.hi)
    BY <1>4 DEF LastPlace
  <2>4. /\ t.range.lo \in Nat /\ Kept(t)[1].range.lo \in Nat /\ End(k, Kept(t)[1].range.hi) \in Int
        /\ Kept(t)[1].range.lo <= End(k, Kept(t)[1].range.hi)
    BY <1>1, <2>2, EndFacts
  <2> QED BY <1>1, <2>2, <2>3, <2>4
<1> QED BY <1>2, <1>3, <1>4

\* Tasks that are not the same have not the same first place.
LEMMA TasksDiffer ==
  ASSUME NEW k, NEW m, NEW T, TasksOK(k, m, T), NEW t \in T, NEW u, TaskOK(k, m, u),
         u.range.lo = t.range.lo
  PROVE  u \notin T \ {t}
<1> SUFFICES ASSUME u \in T, u # t PROVE FALSE
  OBVIOUS
<1>1. LastPlace(k, t) < u.range.lo \/ LastPlace(k, u) < t.range.lo
  BY DEF TasksOK
<1>2. TaskOK(k, m, t)
  BY DEF TasksOK
<1> QED BY <1>1, <1>2, PlacesOfTask

\* Fewer places are where the others were.
LEMMA Narrower ==
  ASSUME NEW k, NEW m, NEW J, JoinsOK(k, m, J), NEW x \in Inner(J),
         NEW a \in Int, NEW b \in Int, NEW c \in Int, NEW d \in Int, a <= c, d <= b
  PROVE  /\ Inside(k, a, b, x) => Inside(k, c, d, x)
         /\ Outside(k, a, b, x) => Outside(k, c, d, x)
<1>1. x \in Nat \X Nat
  BY DEF JoinsOK, Inner, Ids
<1>2. x[1] \in Int /\ End(k, x[2]) \in Int
  BY <1>1 DEF End
<1> QED BY <1>2 DEF Inside, Outside

\* A step of a task that keeps it below its parent, with no more places than before.
LEMMA TaskGoesOn ==
  ASSUME NEW k, NEW m, NEW T, NEW J, TreeOK(k, m, T, J), NEW t \in T, NEW u, TaskOK(k, m, u),
         u.parent = t.parent, u.range.lo = t.range.lo, LastPlace(k, u) <= LastPlace(k, t)
  PROVE  TreeOK(k, m, (T \ {t}) \cup {u}, J)
<1> DEFINE V == (T \ {t}) \cup {u}
<1>1. TasksOK(k, m, T) /\ JoinsOK(k, m, J) /\ PlacesOK(k, T, J) /\ CountsOK(T, J)
  BY DEF TreeOK
<1>2. u \notin T \ {t} /\ TaskOK(k, m, t)
  BY <1>1, TasksDiffer DEF TasksOK
<1>3. /\ t.range.lo \in Nat /\ LastPlace(k, t) \in Int /\ LastPlace(k, u) \in Int
      /\ u.range.lo <= LastPlace(k, u)
  BY <1>2, PlacesOfTask
<1>4. TasksOK(k, m, V)
  <2>1. IsFiniteSet(T \ {t}) /\ IsFiniteSet(V)
    BY <1>1, FS_RemoveElement, FS_AddElement DEF TasksOK
  <2>2. ASSUME NEW v \in V PROVE TaskOK(k, m, v)
    BY <1>1 DEF TasksOK
  <2>3. ASSUME NEW v \in T, v # t
        PROVE  LastPlace(k, u) < v.range.lo \/ LastPlace(k, v) < u.range.lo
    <3>1. LastPlace(k, t) < v.range.lo \/ LastPlace(k, v) < t.range.lo
      BY <1>1, <2>3 DEF TasksOK
    <3>2. v.range.lo \in Nat
      BY <1>1, <2>3, PlacesOfTask DEF TasksOK
    <3> QED BY <1>3, <3>1, <3>2
  <2>4. ASSUME NEW v \in V, NEW w \in V, v # w
        PROVE  LastPlace(k, v) < w.range.lo \/ LastPlace(k, w) < v.range.lo
    <3>1. CASE v \in T \ {t} /\ w \in T \ {t}
      BY <1>1, <2>4, <3>1 DEF TasksOK
    <3>2. CASE v = u /\ w \in T \ {t}
      BY <2>3, <3>2
    <3>3. CASE w = u /\ v \in T \ {t}
      BY <2>3, <3>3
    <3> QED BY <2>4, <3>1, <3>2, <3>3
  <2> QED BY <2>1, <2>2, <2>4 DEF TasksOK
<1>5. PlacesOK(k, V, J)
  <2>1. ASSUME NEW x \in Inner(J)
        PROVE  /\ Inside(k, t.range.lo, LastPlace(k, t), x)
                    => Inside(k, u.range.lo, LastPlace(k, u), x)
               /\ Outside(k, t.range.lo, LastPlace(k, t), x)
                    => Outside(k, u.range.lo, LastPlace(k, u), x)
    BY <1>1, <1>3, Narrower
  <2>2. u.parent \in DOMAIN J /\ (u.parent # Waiter => u.parent \in Inner(J))
    BY <1>1 DEF PlacesOK, Inner
  <2>3. /\ u.parent \in DOMAIN J
        /\ u.parent # Waiter => Inside(k, u.range.lo, LastPlace(k, u), u.parent)
        /\ \A x \in Inner(J) : \/ Inside(k, u.range.lo, LastPlace(k, u), x)
                               \/ Outside(k, u.range.lo, LastPlace(k, u), x)
    BY <1>1, <2>1, <2>2 DEF PlacesOK
  <2> QED BY <1>1, <2>3 DEF PlacesOK
<1>6. ASSUME NEW x PROVE Cardinality(TasksOf(V, x)) = Cardinality(TasksOf(T, x))
  <2>1. CASE x = t.parent
    <3>1. TasksOf(V, x) = (TasksOf(T, x) \ {t}) \cup {u}
      BY <2>1 DEF TasksOf
    <3>2. t \in TasksOf(T, x) /\ u \notin TasksOf(T, x) \ {t}
      BY <1>2, <2>1 DEF TasksOf
    <3>3. IsFiniteSet(TasksOf(T, x))
      BY <1>1, FS_Subset DEF TasksOK, TasksOf
    <3>4. Cardinality((TasksOf(T, x) \ {t}) \cup {u}) = Cardinality(TasksOf(T, x))
      <4> HIDE DEF V
      <4> QED BY <3>2, <3>3, Exchange
    <3> QED BY <3>1, <3>4
  <2>2. CASE x # t.parent
    <3>1. TasksOf(V, x) = TasksOf(T, x)
      BY <2>2 DEF TasksOf
    <3> QED BY <3>1
  <2> QED BY <2>1, <2>2
<1>7. CountsOK(V, J)
  BY <1>1, <1>6 DEF CountsOK
<1> QED BY <1>1, <1>4, <1>5, <1>7 DEF TreeOK

\* Counts and flags are not what makes the tree.
LEMMA SameTree ==
  ASSUME NEW k, NEW m, NEW J, JoinsOK(k, m, J), NEW I, DOMAIN I = DOMAIN J,
         I = [x \in DOMAIN J |-> I[x]],
         \A x \in DOMAIN J : I[x] \in JoinRecords /\ I[x].parent = J[x].parent
  PROVE  /\ JoinsOK(k, m, I)
         /\ \A T : PlacesOK(k, T, J) => PlacesOK(k, T, I)
         /\ \A x : JoinsOf(I, x) = JoinsOf(J, x)
<1>1. Inner(I) = Inner(J) /\ Inner(J) \subseteq DOMAIN J
  BY DEF Inner
<1>2. JoinsOK(k, m, I)
  BY <1>1 DEF JoinsOK
<1>3. ASSUME NEW T, PlacesOK(k, T, J) PROVE PlacesOK(k, T, I)
  BY <1>1, <1>3 DEF PlacesOK
<1>4. ASSUME NEW x PROVE JoinsOf(I, x) = JoinsOf(J, x)
  BY <1>1 DEF JoinsOf
<1> QED BY <1>2, <1>3, <1>4

\* A record of a join with a count less, or with its flag up.
LEMMA JoinRecordFacts ==
  ASSUME NEW r \in JoinRecords
  PROVE  /\ [r EXCEPT !.refs = @ - 1] \in JoinRecords
         /\ [r EXCEPT !.refs = @ - 1].parent = r.parent
         /\ [r EXCEPT !.refs = @ - 1].refs = r.refs - 1
         /\ [r EXCEPT !.stolen = TRUE] \in JoinRecords
         /\ [r EXCEPT !.stolen = TRUE].parent = r.parent
         /\ [r EXCEPT !.stolen = TRUE].refs = r.refs
<1>1. /\ r.parent \in Ids /\ r.refs \in Int /\ r.stolen \in BOOLEAN
      /\ r = [parent |-> r.parent, refs |-> r.refs, stolen |-> r.stolen]
  BY DEF JoinRecords
<1>2. ASSUME NEW c
      PROVE  /\ [r EXCEPT !.refs = c] = [parent |-> r.parent, refs |-> c, stolen |-> r.stolen]
             /\ [r EXCEPT !.stolen = c] = [parent |-> r.parent, refs |-> r.refs, stolen |-> c]
  BY DEF JoinRecords
<1>3. r.refs - 1 \in Int
  BY <1>1
<1>4. /\ [r EXCEPT !.refs = @ - 1] = [parent |-> r.parent, refs |-> r.refs - 1, stolen |-> r.stolen]
      /\ [r EXCEPT !.stolen = TRUE] = [parent |-> r.parent, refs |-> r.refs, stolen |-> TRUE]
  BY <1>2, Zenon
<1> QED BY <1>1, <1>3, <1>4 DEF JoinRecords

\* A task returns.
LEMMA TaskReturns ==
  ASSUME NEW k, NEW m, NEW T, NEW J, TreeOK(k, m, T, J), NEW t \in T
  PROVE  TreeOK(k, m, T \ {t}, [J EXCEPT ![t.parent].refs = @ - 1])
<1> DEFINE V == T \ {t}
           p == t.parent
           I == [J EXCEPT ![p].refs = @ - 1]
<1>1. TasksOK(k, m, T) /\ JoinsOK(k, m, J) /\ PlacesOK(k, T, J) /\ CountsOK(T, J)
  BY DEF TreeOK
<1>2. p \in DOMAIN J /\ \A x \in DOMAIN J : J[x] \in JoinRecords
  BY <1>1 DEF PlacesOK, JoinsOK
<1>3. /\ DOMAIN I = DOMAIN J /\ I = [x \in DOMAIN J |-> I[x]]
      /\ \A x \in DOMAIN J : I[x] = IF x = p THEN [J[p] EXCEPT !.refs = @ - 1] ELSE J[x]
  BY <1>2
<1> HIDE DEF I
<1>4. ASSUME NEW x \in DOMAIN J
      PROVE  /\ I[x] \in JoinRecords /\ I[x].parent = J[x].parent
             /\ I[x].refs = IF x = p THEN J[x].refs - 1 ELSE J[x].refs
  <2>1. CASE x = p
    <3>1. J[x] \in JoinRecords
      BY <1>2
    <3>2. I[x] = [J[x] EXCEPT !.refs = @ - 1]
      BY <1>3, <2>1
    <3>3. I[x] \in JoinRecords /\ I[x].parent = J[x].parent /\ I[x].refs = J[x].refs - 1
      BY <3>1, <3>2, JoinRecordFacts
    <3> QED BY <2>1, <3>3
  <2>2. CASE x # p
    BY <1>2, <1>3, <2>2
  <2> QED BY <2>1, <2>2
<1>5. JoinsOK(k, m, I) /\ PlacesOK(k, T, I) /\ \A x : JoinsOf(I, x) = JoinsOf(J, x)
  BY <1>1, <1>3, <1>4, SameTree
<1>6. TasksOK(k, m, V) /\ PlacesOK(k, V, I)
  BY <1>1, <1>5, FS_RemoveElement DEF TasksOK, PlacesOK
<1>7. ASSUME NEW x \in DOMAIN J
      PROVE  I[x].refs = Cardinality(TasksOf(V, x)) + Cardinality(JoinsOf(I, x))
  <2>1. J[x].refs = Cardinality(TasksOf(T, x)) + Cardinality(JoinsOf(J, x))
    BY <1>1 DEF CountsOK
  <2>2. CASE x # p
    <3>1. TasksOf(V, x) = TasksOf(T, x)
      BY <2>2 DEF TasksOf
    <3> QED BY <1>4, <1>5, <2>1, <2>2, <3>1
  <2>3. CASE x = p
    <3>1. TasksOf(V, x) = TasksOf(T, x) \ {t} /\ t \in TasksOf(T, x)
      BY <2>3 DEF TasksOf
    <3>2. IsFiniteSet(TasksOf(T, x)) /\ IsFiniteSet(JoinsOf(J, x))
      BY <1>1, FS_Subset DEF TasksOK, TasksOf, JoinsOK, JoinsOf, Inner
    <3>3. Cardinality(TasksOf(V, x)) = Cardinality(TasksOf(T, x)) - 1
      BY <3>1, <3>2, FS_RemoveElement
    <3>4. Cardinality(TasksOf(T, x)) \in Nat /\ Cardinality(JoinsOf(J, x)) \in Nat
      BY <3>2, FS_CardinalityType
    <3>5. I[x].refs = J[x].refs - 1
      BY <1>4, <2>3
    <3>6. JoinsOf(I, x) = JoinsOf(J, x)
      BY <1>5
    <3> QED BY <2>1, <3>3, <3>4, <3>5, <3>6
  <2> QED BY <2>2, <2>3
<1>8. CountsOK(V, I)
  BY <1>3, <1>7 DEF CountsOK
<1>9. TreeOK(k, m, V, I)
  BY <1>5, <1>6, <1>8 DEF TreeOK
<1> QED BY <1>9 DEF I

\* A flag goes up.
LEMMA FlagGoesUp ==
  ASSUME NEW k, NEW m, NEW T, NEW J, TreeOK(k, m, T, J), NEW p \in DOMAIN J
  PROVE  TreeOK(k, m, T, [J EXCEPT ![p].stolen = TRUE])
<1> DEFINE I == [J EXCEPT ![p].stolen = TRUE]
<1>1. TasksOK(k, m, T) /\ JoinsOK(k, m, J) /\ PlacesOK(k, T, J) /\ CountsOK(T, J)
  BY DEF TreeOK
<1>2. \A x \in DOMAIN J : J[x] \in JoinRecords
  BY <1>1 DEF JoinsOK
<1>3. /\ DOMAIN I = DOMAIN J /\ I = [x \in DOMAIN J |-> I[x]]
      /\ \A x \in DOMAIN J : I[x] = IF x = p THEN [J[p] EXCEPT !.stolen = TRUE] ELSE J[x]
  BY <1>2
<1> HIDE DEF I
<1>4. \A x \in DOMAIN J :
        I[x] \in JoinRecords /\ I[x].parent = J[x].parent /\ I[x].refs = J[x].refs
  BY <1>2, <1>3, JoinRecordFacts, ZenonT(40)
<1>5. JoinsOK(k, m, I) /\ PlacesOK(k, T, I) /\ \A x : JoinsOf(I, x) = JoinsOf(J, x)
  BY <1>1, <1>3, <1>4, SameTree
<1>6. CountsOK(T, I)
  BY <1>1, <1>3, <1>4, <1>5 DEF CountsOK
<1>7. TreeOK(k, m, T, I)
  BY <1>1, <1>5, <1>6 DEF TreeOK
<1> QED BY <1>7 DEF I

\* A join whose children have returned returns, too.
LEMMA JoinReturns ==
  ASSUME NEW k, NEW m, NEW T, NEW J, TreeOK(k, m, T, J), NEW z \in Inner(J), J[z].refs = 0
  PROVE  TreeOK(k, m, T, LET rest == [x \in DOMAIN J \ {z} |-> J[x]]
                         IN  [rest EXCEPT ![J[z].parent].refs = @ - 1])
<1> DEFINE p == J[z].parent
           rest == [x \in DOMAIN J \ {z} |-> J[x]]
           I == [rest EXCEPT ![p].refs = @ - 1]
<1>1. TasksOK(k, m, T) /\ JoinsOK(k, m, J) /\ PlacesOK(k, T, J) /\ CountsOK(T, J)
  BY DEF TreeOK
<1>2. z \in DOMAIN J /\ z # Waiter
  BY DEF Inner
<1>3. \A x : IsFiniteSet(TasksOf(T, x)) /\ IsFiniteSet(JoinsOf(J, x))
  BY <1>1, FS_Subset DEF TasksOK, TasksOf, JoinsOK, JoinsOf, Inner
<1>4. TasksOf(T, z) = {} /\ JoinsOf(J, z) = {}
  <2>1. 0 = Cardinality(TasksOf(T, z)) + Cardinality(JoinsOf(J, z))
    BY <1>1, <1>2 DEF CountsOK
  <2>2. Cardinality(TasksOf(T, z)) = 0 /\ Cardinality(JoinsOf(J, z)) = 0
    BY <1>3, <2>1, FS_CardinalityType
  <2> QED BY <1>3, <2>2, FS_EmptySet
<1>5. p \in DOMAIN J /\ p # z
  <2>1. p \in DOMAIN J
    BY <1>1 DEF JoinsOK
  <2>2. p # z
    BY <1>4 DEF JoinsOf
  <2> QED BY <2>1, <2>2
<1>6. /\ DOMAIN I = DOMAIN J \ {z} /\ I = [x \in DOMAIN J \ {z} |-> I[x]]
      /\ \A x \in DOMAIN J \ {z} : I[x] = IF x = p THEN [J[p] EXCEPT !.refs = @ - 1] ELSE J[x]
  BY <1>5
<1> HIDE DEF I
<1>7. \A x \in DOMAIN J \ {z} :
        /\ I[x] \in JoinRecords /\ I[x].parent = J[x].parent
        /\ I[x].refs = IF x = p THEN J[x].refs - 1 ELSE J[x].refs
  <2>1. \A x \in DOMAIN J : J[x] \in JoinRecords
    BY <1>1 DEF JoinsOK
  <2> SUFFICES ASSUME NEW x \in DOMAIN J \ {z}
               PROVE  /\ I[x] \in JoinRecords /\ I[x].parent = J[x].parent
                      /\ I[x].refs = IF x = p THEN J[x].refs - 1 ELSE J[x].refs
    OBVIOUS
  <2>2. CASE x = p
    <3>1. J[x] \in JoinRecords
      BY <2>1
    <3>2. I[x] = [J[x] EXCEPT !.refs = @ - 1]
      BY <1>6, <2>2
    <3>3. I[x] \in JoinRecords /\ I[x].parent = J[x].parent /\ I[x].refs = J[x].refs - 1
      BY <3>1, <3>2, JoinRecordFacts
    <3> QED BY <2>2, <3>3
  <2>3. CASE x # p
    BY <1>6, <2>1, <2>3
  <2> QED BY <2>2, <2>3
<1>8. Inner(I) = Inner(J) \ {z} /\ Inner(J) \subseteq DOMAIN J
  BY <1>6 DEF Inner
<1>9. JoinsOK(k, m, I)
  <2>1. IsFiniteSet(DOMAIN I) /\ Waiter \in DOMAIN I /\ I = [x \in DOMAIN I |-> I[x]]
    BY <1>1, <1>2, <1>6, FS_RemoveElement DEF JoinsOK
  <2>2. ASSUME NEW x \in DOMAIN I PROVE x \in Ids /\ I[x] \in JoinRecords
    BY <1>1, <1>6, <1>7, <2>2 DEF JoinsOK
  <2>3. ASSUME NEW x \in Inner(I)
        PROVE  /\ x[1] <= End(k, x[2]) /\ x[2] <= m
               /\ I[x].parent \in DOMAIN I
               /\ I[x].parent # Waiter => Inside(k, x[1], End(k, x[2]), I[x].parent)
    <3>1. x \in Inner(J) /\ x # z /\ I[x].parent = J[x].parent
      BY <1>7, <1>8, <2>3
    <3>2. J[x].parent # z
      BY <1>4, <3>1 DEF JoinsOf
    <3> QED BY <1>1, <1>6, <3>1, <3>2 DEF JoinsOK
  <2> QED BY <2>1, <2>2, <2>3 DEF JoinsOK
<1>10. PlacesOK(k, T, I)
  <2>1. \A t \in T : t.parent # z
    BY <1>4 DEF TasksOf
  <2> QED BY <1>1, <1>6, <1>8, <2>1 DEF PlacesOK
<1>11. ASSUME NEW x \in DOMAIN I
       PROVE  I[x].refs = Cardinality(TasksOf(T, x)) + Cardinality(JoinsOf(I, x))
  <2>1. J[x].refs = Cardinality(TasksOf(T, x)) + Cardinality(JoinsOf(J, x))
    BY <1>1, <1>6 DEF CountsOK
  <2>2. JoinsOf(I, x) = JoinsOf(J, x) \ {z}
    BY <1>7, <1>8 DEF JoinsOf
  <2>3. CASE x # p
    <3>1. JoinsOf(I, x) = JoinsOf(J, x)
      BY <2>2, <2>3 DEF JoinsOf
    <3> QED BY <1>6, <1>7, <2>1, <2>3, <3>1
  <2>4. CASE x = p
    <3>1. z \in JoinsOf(J, x)
      BY <2>4 DEF JoinsOf
    <3>2. Cardinality(JoinsOf(I, x)) = Cardinality(JoinsOf(J, x)) - 1
      BY <1>3, <2>2, <3>1, FS_RemoveElement
    <3>3. Cardinality(TasksOf(T, x)) \in Nat /\ Cardinality(JoinsOf(J, x)) \in Nat
      BY <1>3, FS_CardinalityType
    <3>4. I[x].refs = J[x].refs - 1
      BY <1>6, <1>7, <2>4
    <3> QED BY <2>1, <3>2, <3>3, <3>4
  <2> QED BY <2>3, <2>4
<1>12. TreeOK(k, m, T, I)
  BY <1>1, <1>9, <1>10, <1>11 DEF TreeOK, CountsOK
<1> QED BY <1>12 DEF I

\* When the one that waits has no child left, there is no task and no join left: the
\* parent of the widest join would be wider.
LEMMA NoneLeft ==
  ASSUME NEW k, NEW m, WholeOK(k, m), NEW T, NEW J, TreeOK(k, m, T, J), J[Waiter].refs = 0
  PROVE  T = {} /\ Inner(J) = {}
<1>1. TasksOK(k, m, T) /\ JoinsOK(k, m, J) /\ PlacesOK(k, T, J) /\ CountsOK(T, J)
  BY DEF TreeOK
<1>2. TasksOf(T, Waiter) = {} /\ JoinsOf(J, Waiter) = {}
  <2>1. IsFiniteSet(TasksOf(T, Waiter)) /\ IsFiniteSet(JoinsOf(J, Waiter))
    BY <1>1, FS_Subset DEF TasksOK, TasksOf, JoinsOK, JoinsOf, Inner
  <2>2. 0 = Cardinality(TasksOf(T, Waiter)) + Cardinality(JoinsOf(J, Waiter))
    BY <1>1 DEF CountsOK, JoinsOK
  <2>3. Cardinality(TasksOf(T, Waiter)) = 0 /\ Cardinality(JoinsOf(J, Waiter)) = 0
    BY <2>1, <2>2, FS_CardinalityType
  <2> QED BY <2>1, <2>3, FS_EmptySet
<1>3. Inner(J) = {}
  <2> SUFFICES ASSUME Inner(J) # {} PROVE FALSE
    OBVIOUS
  <2> DEFINE Rest(x) == (0 .. m) \ (x[1] .. End(k, x[2]))
             F == {Rest(x) : x \in Inner(J)}
  <2>1. ASSUME NEW x \in Inner(J)
        PROVE  /\ x[1] \in Nat /\ End(k, x[2]) \in Int /\ x[1] <= End(k, x[2])
               /\ End(k, x[2]) <= m /\ m \in Nat
               /\ J[x].parent \in Inner(J) /\ Inside(k, x[1], End(k, x[2]), J[x].parent)
    <3>1. x \in Nat \X Nat /\ x[1] <= End(k, x[2]) /\ x[2] <= m
      BY <1>1, <2>1 DEF JoinsOK, Inner, Ids
    <3>2. J[x].parent \in Inner(J)
      BY <1>1, <1>2, <2>1 DEF JoinsOK, Inner, JoinsOf
    <3>3. Inside(k, x[1], End(k, x[2]), J[x].parent)
      BY <1>1, <2>1, <3>2 DEF JoinsOK, Inner
    <3>4. x[1] \in Nat /\ x[2] \in Nat
      BY <3>1
    <3>5. m \in Nat
      BY DEF WholeOK
    <3>6. End(k, x[2]) \in Int /\ End(k, x[2]) <= x[2]
      BY <3>4 DEF End
    <3> QED BY <3>1, <3>2, <3>3, <3>4, <3>5, <3>6
  <2>2. F \subseteq FiniteSubsetsOf(0 .. m) /\ F # {}
    <3>1. m \in Nat
      BY DEF WholeOK
    <3>2. ASSUME NEW x \in Inner(J) PROVE Rest(x) \subseteq 0 .. m /\ IsFiniteSet(Rest(x))
      <4>1. IsFiniteSet(0 .. m) /\ Rest(x) \subseteq 0 .. m
        BY <3>1, FS_Interval
      <4> HIDE DEF Rest
      <4> QED BY <4>1, FS_Subset
    <3> QED BY <3>2 DEF FiniteSubsetsOf
  <2>3. IsWellFoundedOn(StrictSubsetOrdering(0 .. m), FiniteSubsetsOf(0 .. m))
    BY FS_StrictSubsetOrderingWellFounded
  <2> HIDE DEF F
  <2>4. PICK e \in F : \A f \in F : ~ (<<f, e>> \in StrictSubsetOrdering(0 .. m))
    BY <2>2, <2>3, WFMin
  <2>5. PICK x \in Inner(J) : e = Rest(x)
    BY <2>4 DEF F
  <2> DEFINE y == J[x].parent
  <2>6. y \in Inner(J) /\ Inside(k, x[1], End(k, x[2]), y)
    BY <2>1
  <2>7. /\ x[1] \in Nat /\ End(k, x[2]) \in Int /\ y[1] \in Nat /\ End(k, y[2]) \in Int /\ m \in Nat
        /\ x[1] <= End(k, x[2]) /\ End(k, y[2]) <= m
    BY <2>1, <2>6
  <2>8. y[1] <= x[1] /\ End(k, x[2]) <= End(k, y[2]) /\ (y[1] < x[1] \/ End(k, x[2]) < End(k, y[2]))
    BY <2>6 DEF Inside
  <2> HIDE DEF y
  <2>9. Rest(y) \subseteq Rest(x) /\ Rest(y) # Rest(x)
    <3>1. Rest(y) \subseteq Rest(x)
      BY <2>7, <2>8
    <3>2. CASE y[1] < x[1]
      <4>1. /\ y[1] \in 0 .. m /\ ~ (x[1] <= y[1])
            /\ y[1] <= End(k, y[2])
        BY <2>7, <2>8, <3>2
      <4>2. y[1] \in Rest(x) /\ y[1] \notin Rest(y)
        BY <2>7, <4>1
      <4> QED BY <3>1, <4>2
    <3>3. CASE End(k, x[2]) < End(k, y[2])
      <4>1. /\ End(k, y[2]) \in 0 .. m /\ ~ (End(k, y[2]) <= End(k, x[2]))
            /\ y[1] <= End(k, y[2])
        BY <2>7, <2>8, <3>3
      <4>2. End(k, y[2]) \in Rest(x) /\ End(k, y[2]) \notin Rest(y)
        BY <2>7, <4>1
      <4> QED BY <3>1, <4>2
    <3> QED BY <2>8, <3>1, <3>2, <3>3
  <2>10. Rest(y) \in F
    BY <2>6 DEF F
  <2> QED BY <2>4, <2>5, <2>9, <2>10 DEF StrictSubsetOrdering
<1>4. ASSUME NEW t \in T PROVE FALSE
  <2>1. t.parent \in DOMAIN J
    BY <1>1 DEF PlacesOK
  <2>2. t.parent = Waiter
    BY <1>3, <2>1 DEF Inner
  <2> QED BY <1>2, <2>2 DEF TasksOf
<1> QED BY <1>3, <1>4

\* A task offers its last places to a new one, and both go below a new join.
LEMMA TaskOffers ==
  ASSUME NEW k, NEW m, NEW T, NEW J, TreeOK(k, m, T, J), NEW t \in T,
         NEW u, TaskOK(k, m, u), NEW s, TaskOK(k, m, s),
         NEW b \in Nat, b <= m, LastPlace(k, t) = End(k, b),
         u.parent = <<t.range.lo, b>>, s.parent = <<t.range.lo, b>>,
         u.range.lo = t.range.lo, LastPlace(k, u) < s.range.lo, LastPlace(k, s) <= LastPlace(k, t)
  PROVE  TreeOK(k, m, (T \ {t}) \cup {u, s},
                [x \in DOMAIN J \cup {<<t.range.lo, b>>} |->
                   IF x = <<t.range.lo, b>> THEN [parent |-> t.parent, refs |-> 2, stolen |-> FALSE]
                                            ELSE J[x]])
<1> DEFINE id == <<t.range.lo, b>>
           V == (T \ {t}) \cup {u, s}
           new == [parent |-> t.parent, refs |-> 2, stolen |-> FALSE]
           I == [x \in DOMAIN J \cup {id} |-> IF x = id THEN new ELSE J[x]]
<1>1. TasksOK(k, m, T) /\ JoinsOK(k, m, J) /\ PlacesOK(k, T, J) /\ CountsOK(T, J)
  BY DEF TreeOK
<1>2. TaskOK(k, m, t)
  BY <1>1 DEF TasksOK
<1>3. /\ t.range.lo \in Nat /\ u.range.lo \in Nat /\ s.range.lo \in Nat
      /\ LastPlace(k, t) \in Int /\ LastPlace(k, u) \in Int /\ LastPlace(k, s) \in Int
      /\ t.range.lo <= LastPlace(k, t) /\ u.range.lo <= LastPlace(k, u)
      /\ s.range.lo <= LastPlace(k, s) /\ t.parent \in Ids
  BY <1>2, PlacesOfTask
<1>4. /\ id[1] = t.range.lo /\ id[2] = b /\ End(k, id[2]) = LastPlace(k, t)
      /\ id \in Nat \X Nat /\ id # Waiter
  BY <1>3, PairsAreInner
<1> HIDE DEF id
<1>5. id \notin DOMAIN J
  <2> SUFFICES ASSUME id \in DOMAIN J PROVE FALSE
    OBVIOUS
  <2>1. id \in Inner(J)
    BY <1>4 DEF Inner
  <2>2. Inside(k, t.range.lo, LastPlace(k, t), id) \/ Outside(k, t.range.lo, LastPlace(k, t), id)
    BY <1>1, <2>1 DEF PlacesOK
  <2> QED BY <1>3, <1>4, <2>2 DEF Inside, Outside
<1>6. /\ DOMAIN I = DOMAIN J \cup {id} /\ I = [x \in DOMAIN I |-> I[x]]
      /\ I[id] = new /\ \A x \in DOMAIN J : I[x] = J[x]
  BY <1>5
<1>7. new \in JoinRecords /\ new.parent = t.parent /\ new.refs = 2
  BY <1>3 DEF JoinRecords
<1> HIDE DEF I, new
<1>8. Inner(I) = Inner(J) \cup {id} /\ Inner(J) \subseteq DOMAIN J
  BY <1>4, <1>6 DEF Inner
<1>9. /\ t.parent \in DOMAIN J
      /\ t.parent # Waiter => Inside(k, t.range.lo, LastPlace(k, t), t.parent)
  BY <1>1 DEF PlacesOK
<1>10. u \notin T \ {t} /\ s \notin T \ {t} /\ u # s
  <2>1. u \notin T \ {t}
    BY <1>1, TasksDiffer
  <2>2. ASSUME s \in T, s # t PROVE FALSE
    <3>1. LastPlace(k, t) < s.range.lo \/ LastPlace(k, s) < t.range.lo
      BY <1>1, <2>2 DEF TasksOK
    <3> QED BY <1>3, <3>1
  <2>3. u # s
    BY <1>3
  <2> QED BY <2>1, <2>2, <2>3
<1>11. ASSUME NEW v \in T, v # t
       PROVE  /\ v.range.lo \in Nat /\ LastPlace(k, v) \in Int
              /\ LastPlace(k, t) < v.range.lo \/ LastPlace(k, v) < t.range.lo
  BY <1>1, <1>11, PlacesOfTask DEF TasksOK
<1>12. TasksOK(k, m, V)
  <2>1. IsFiniteSet(V)
    <3>1. IsFiniteSet((T \ {t}) \cup {u})
      BY <1>1, FS_RemoveElement, FS_AddElement DEF TasksOK
    <3>2. V = ((T \ {t}) \cup {u}) \cup {s}
      OBVIOUS
    <3> HIDE DEF V
    <3> QED BY <3>1, <3>2, FS_AddElement
  <2>2. ASSUME NEW v \in V PROVE TaskOK(k, m, v)
    BY <1>1 DEF TasksOK
  <2>3. ASSUME NEW v \in T, v # t, NEW w \in {u, s}
        PROVE  LastPlace(k, w) < v.range.lo \/ LastPlace(k, v) < w.range.lo
    <3>1. /\ v.range.lo \in Nat /\ LastPlace(k, v) \in Int
          /\ LastPlace(k, t) < v.range.lo \/ LastPlace(k, v) < t.range.lo
      BY <1>11, <2>3
    <3>2. CASE w = u
      BY <1>3, <3>1, <3>2
    <3>3. CASE w = s
      BY <1>3, <3>1, <3>3
    <3> QED BY <3>2, <3>3
  <2>4. ASSUME NEW v \in V, NEW w \in V, v # w
        PROVE  LastPlace(k, v) < w.range.lo \/ LastPlace(k, w) < v.range.lo
    <3>1. CASE v \in T \ {t} /\ w \in T \ {t}
      BY <1>1, <2>4, <3>1 DEF TasksOK
    <3>2. CASE v \in {u, s} /\ w \in T \ {t}
      BY <2>3, <3>2
    <3>3. CASE w \in {u, s} /\ v \in T \ {t}
      BY <2>3, <3>3
    <3>4. CASE v \in {u, s} /\ w \in {u, s}
      BY <2>4, <3>4
    <3> QED BY <2>4, <3>1, <3>2, <3>3, <3>4
  <2> QED BY <2>1, <2>2, <2>4 DEF TasksOK
<1>13. JoinsOK(k, m, I)
  <2>1. IsFiniteSet(DOMAIN I) /\ Waiter \in DOMAIN I /\ I = [x \in DOMAIN I |-> I[x]]
    <3>1. IsFiniteSet(DOMAIN J \cup {id}) /\ Waiter \in DOMAIN J
      BY <1>1, FS_AddElement DEF JoinsOK
    <3> QED BY <1>6, <3>1
  <2>2. ASSUME NEW x \in DOMAIN I PROVE x \in Ids /\ I[x] \in JoinRecords
    BY <1>1, <1>4, <1>6, <1>7 DEF JoinsOK, Ids
  <2>3. ASSUME NEW x \in Inner(I)
        PROVE  /\ x[1] <= End(k, x[2]) /\ x[2] <= m
               /\ I[x].parent \in DOMAIN I
               /\ I[x].parent # Waiter => Inside(k, x[1], End(k, x[2]), I[x].parent)
    <3>1. CASE x = id
      BY <1>3, <1>4, <1>6, <1>7, <1>9, <3>1
    <3>2. CASE x \in Inner(J)
      BY <1>1, <1>6, <1>8, <3>2 DEF JoinsOK
    <3> QED BY <1>8, <3>1, <3>2
  <2> QED BY <2>1, <2>2, <2>3 DEF JoinsOK
<1>14. PlacesOK(k, V, I)
  <2>1. ASSUME NEW v \in T, v # t
        PROVE  /\ v.parent \in DOMAIN I
               /\ v.parent # Waiter => Inside(k, v.range.lo, LastPlace(k, v), v.parent)
               /\ \A x \in Inner(I) : \/ Inside(k, v.range.lo, LastPlace(k, v), x)
                                      \/ Outside(k, v.range.lo, LastPlace(k, v), x)
    <3>1. Outside(k, v.range.lo, LastPlace(k, v), id)
      BY <1>4, <1>11, <2>1 DEF Outside
    <3> QED BY <1>1, <1>6, <1>8, <2>1, <3>1 DEF PlacesOK
  <2>2. ASSUME NEW v \in {u, s}
        PROVE  /\ v.parent \in DOMAIN I /\ Inside(k, v.range.lo, LastPlace(k, v), v.parent)
               /\ \A x \in Inner(I) : \/ Inside(k, v.range.lo, LastPlace(k, v), x)
                                      \/ Outside(k, v.range.lo, LastPlace(k, v), x)
    <3>1. v.parent = id
      BY DEF id
    <3>2. /\ v.range.lo \in Nat /\ LastPlace(k, v) \in Int
          /\ t.range.lo <= v.range.lo /\ LastPlace(k, v) <= LastPlace(k, t)
          /\ t.range.lo < v.range.lo \/ LastPlace(k, v) < LastPlace(k, t)
      <4>1. CASE v = u
        BY <1>3, <4>1
      <4>2. CASE v = s
        BY <1>3, <4>2
      <4> QED BY <4>1, <4>2
    <3>3. Inside(k, v.range.lo, LastPlace(k, v), id)
      BY <1>4, <3>2 DEF Inside
    <3>4. ASSUME NEW x \in Inner(J)
          PROVE  \/ Inside(k, v.range.lo, LastPlace(k, v), x)
                 \/ Outside(k, v.range.lo, LastPlace(k, v), x)
      <4>1. \/ Inside(k, t.range.lo, LastPlace(k, t), x)
            \/ Outside(k, t.range.lo, LastPlace(k, t), x)
        BY <1>1 DEF PlacesOK
      <4> QED BY <1>1, <1>3, <3>2, <4>1, Narrower
    <3> QED BY <1>6, <1>8, <3>1, <3>3, <3>4
  <2> QED BY <2>1, <2>2 DEF PlacesOK
<1>15. \A x : IsFiniteSet(TasksOf(T, x)) /\ IsFiniteSet(JoinsOf(J, x))
  BY <1>1, FS_Subset DEF TasksOK, TasksOf, JoinsOK, JoinsOf, Inner
<1>16. ASSUME NEW x \in DOMAIN J
       PROVE  I[x].refs = Cardinality(TasksOf(V, x)) + Cardinality(JoinsOf(I, x))
  <2>1. x # id /\ J[x].refs = Cardinality(TasksOf(T, x)) + Cardinality(JoinsOf(J, x))
    BY <1>1, <1>5 DEF CountsOK
  <2>2. I[x].refs = J[x].refs
    BY <1>6
  <2>3. TasksOf(V, x) = TasksOf(T, x) \ {t}
    <3>1. u.parent # x /\ s.parent # x
      BY <2>1 DEF id
    <3> QED BY <3>1 DEF TasksOf
  <2>4. CASE x # t.parent
    <3>1. TasksOf(V, x) = TasksOf(T, x)
      BY <2>3, <2>4 DEF TasksOf
    <3>2. JoinsOf(I, x) = JoinsOf(J, x)
      BY <1>6, <1>7, <1>8, <2>4 DEF JoinsOf
    <3> QED BY <2>1, <2>2, <3>1, <3>2
  <2>5. CASE x = t.parent
    <3>1. t \in TasksOf(T, x)
      BY <2>5 DEF TasksOf
    <3>2. JoinsOf(I, x) = JoinsOf(J, x) \cup {id} /\ id \notin JoinsOf(J, x)
      BY <1>5, <1>6, <1>7, <1>8, <2>5 DEF JoinsOf
    <3>3. Cardinality(TasksOf(V, x)) = Cardinality(TasksOf(T, x)) - 1
      BY <1>15, <2>3, <3>1, FS_RemoveElement
    <3>4. Cardinality(JoinsOf(I, x)) = Cardinality(JoinsOf(J, x)) + 1
      BY <1>15, <3>2, FS_AddElement
    <3>5. Cardinality(TasksOf(T, x)) \in Nat /\ Cardinality(JoinsOf(J, x)) \in Nat
      BY <1>15, FS_CardinalityType
    <3> QED BY <2>1, <2>2, <3>3, <3>4, <3>5
  <2> QED BY <2>4, <2>5
<1>17. I[id].refs = Cardinality(TasksOf(V, id)) + Cardinality(JoinsOf(I, id))
  <2>1. TasksOf(V, id) = {u} \cup {s}
    <3>1. \A v \in T : v.parent # id
      BY <1>1, <1>5 DEF PlacesOK
    <3>2. u.parent = id /\ s.parent = id
      BY DEF id
    <3> QED BY <3>1, <3>2 DEF TasksOf
  <2>2. JoinsOf(I, id) = {}
    <3>1. \A x \in Inner(J) : J[x].parent # id
      BY <1>1, <1>5 DEF JoinsOK
    <3>2. I[id].parent # id
      BY <1>5, <1>6, <1>7, <1>9
    <3> QED BY <1>6, <1>8, <3>1, <3>2 DEF JoinsOf
  <2>3. Cardinality(TasksOf(V, id)) = 2
    <3>1. IsFiniteSet({u}) /\ Cardinality({u}) = 1 /\ s \notin {u}
      BY <1>10, FS_Singleton
    <3>2. Cardinality({u} \cup {s}) = 1 + 1
      BY <3>1, FS_AddElement
    <3> QED BY <2>1, <3>2
  <2>4. Cardinality(JoinsOf(I, id)) = 0
    BY <2>2, FS_EmptySet
  <2> QED BY <1>6, <1>7, <2>3, <2>4
<1>18. TreeOK(k, m, V, I)
  BY <1>6, <1>12, <1>13, <1>14, <1>16, <1>17 DEF TreeOK, CountsOK
<1> QED BY <1>18 DEF I, new, id


\* The same with names for what is assumed and for the joins then.
WithJoin(J, id, parent) ==
  [x \in DOMAIN J \cup {id} |->
     IF x = id THEN [parent |-> parent, refs |-> 2, stolen |-> FALSE] ELSE J[x]]

MayOffer(k, m, T, J, t, u, s, b) ==
  /\ TreeOK(k, m, T, J) /\ t \in T /\ TaskOK(k, m, u) /\ TaskOK(k, m, s)
  /\ b \in Nat /\ b <= m /\ LastPlace(k, t) = End(k, b)
  /\ u.parent = <<t.range.lo, b>> /\ s.parent = <<t.range.lo, b>>
  /\ u.range.lo = t.range.lo /\ LastPlace(k, u) < s.range.lo /\ LastPlace(k, s) <= LastPlace(k, t)

\* An offer keeps the tree of joins.
LEMMA OfferKeepsTree ==
  ASSUME NEW k, NEW m, NEW T, NEW J, NEW t, NEW u, NEW s, NEW b, MayOffer(k, m, T, J, t, u, s, b)
  PROVE  TreeOK(k, m, (T \ {t}) \cup {u, s}, WithJoin(J, <<t.range.lo, b>>, t.parent))
<1>1. TreeOK(k, m, T, J) /\ t \in T /\ TaskOK(k, m, u) /\ TaskOK(k, m, s)
  BY DEF MayOffer
<1>2. b \in Nat /\ b <= m /\ LastPlace(k, t) = End(k, b)
  BY DEF MayOffer
<1>3. /\ u.parent = <<t.range.lo, b>> /\ s.parent = <<t.range.lo, b>>
      /\ u.range.lo = t.range.lo /\ LastPlace(k, u) < s.range.lo /\ LastPlace(k, s) <= LastPlace(k, t)
  BY DEF MayOffer
<1> DEFINE I == [x \in DOMAIN J \cup {<<t.range.lo, b>>} |->
                   IF x = <<t.range.lo, b>> THEN [parent |-> t.parent, refs |-> 2, stolen |-> FALSE]
                                            ELSE J[x]]
<1>4. TreeOK(k, m, (T \ {t}) \cup {u, s}, I)
  BY <1>1, <1>2, <1>3, TaskOffers
<1>5. I = WithJoin(J, <<t.range.lo, b>>, t.parent)
  BY DEF WithJoin
<1> HIDE DEF I
<1> QED BY <1>4, <1>5

-----------------------------------------------------------------------------
Rec(range, parent, pc, divisor, depth, pool) ==
  [range |-> range, parent |-> parent, pc |-> pc, divisor |-> divisor, depth |-> depth, pool |-> pool]

\* The updates of a task in the actions ...
AsStolen(t, c, v, e) == [t EXCEPT !.pc = c, !.divisor = v, !.depth = e]
AsDivided(t, c, r, v, e, p) == [[t EXCEPT !.pc = c, !.range = r, !.divisor = v, !.depth = e] EXCEPT !.parent = p]
AsPooled(t, q, v, c) == [t EXCEPT !.pool = q, !.divisor = v, !.pc = c]
AsFilled(t, c, q) == [t EXCEPT !.pc = c, !.pool = q]
AsPopped(t, q, c) == [t EXCEPT !.pool = q, !.pc = c]
AsMoved(t, c) == [t EXCEPT !.pc = c]
AsDeeper(t, e) == [t EXCEPT !.depth = e]
AsLighter(t, c, v, p) == [[t EXCEPT !.pc = c, !.divisor = v] EXCEPT !.parent = p]

\* ... and what they make of it.
LEMMA Updates ==
  ASSUME NEW t \in TaskRecords
  PROVE  /\ \A c, v, e : AsStolen(t, c, v, e) = Rec(t.range, t.parent, c, v, e, t.pool)
         /\ \A c, r, v, e, p : AsDivided(t, c, r, v, e, p) = Rec(r, p, c, v, e, t.pool)
         /\ \A q, v, c : AsPooled(t, q, v, c) = Rec(t.range, t.parent, c, v, t.depth, q)
         /\ \A c, q : AsFilled(t, c, q) = Rec(t.range, t.parent, c, t.divisor, t.depth, q)
         /\ \A q, c : AsPopped(t, q, c) = Rec(t.range, t.parent, c, t.divisor, t.depth, q)
         /\ \A c : AsMoved(t, c) = Rec(t.range, t.parent, c, t.divisor, t.depth, t.pool)
         /\ \A e : AsDeeper(t, e) = Rec(t.range, t.parent, t.pc, t.divisor, e, t.pool)
         /\ \A c, v, p : AsLighter(t, c, v, p) = Rec(t.range, p, c, v, t.depth, t.pool)
<1>1. t = Rec(t.range, t.parent, t.pc, t.divisor, t.depth, t.pool)
  BY DEF TaskRecords, Rec
<1>2. ASSUME NEW c, NEW v, NEW e
      PROVE  AsStolen(t, c, v, e) = Rec(t.range, t.parent, c, v, e, t.pool)
  <2> DEFINE u1 == [t EXCEPT !.pc = c]
             u2 == [u1 EXCEPT !.divisor = v]
  <2>1. u1 = Rec(t.range, t.parent, c, t.divisor, t.depth, t.pool)
    BY <1>1 DEF Rec
  <2>2. u2 = Rec(t.range, t.parent, c, v, t.depth, t.pool)
    <3> HIDE DEF u1
    <3> QED BY <2>1 DEF Rec
  <2>3. [u2 EXCEPT !.depth = e] = Rec(t.range, t.parent, c, v, e, t.pool)
    <3> HIDE DEF u1, u2
    <3> QED BY <2>2 DEF Rec
  <2> QED BY <2>3 DEF AsStolen
<1>3. ASSUME NEW c, NEW r, NEW v, NEW e, NEW p
      PROVE  AsDivided(t, c, r, v, e, p) = Rec(r, p, c, v, e, t.pool)
  <2> DEFINE u1 == [t EXCEPT !.pc = c]
             u2 == [u1 EXCEPT !.range = r]
             u3 == [u2 EXCEPT !.divisor = v]
             u4 == [u3 EXCEPT !.depth = e]
  <2>1. u1 = Rec(t.range, t.parent, c, t.divisor, t.depth, t.pool)
    BY <1>1 DEF Rec
  <2>2. u2 = Rec(r, t.parent, c, t.divisor, t.depth, t.pool)
    <3> HIDE DEF u1
    <3> QED BY <2>1 DEF Rec
  <2>3. u3 = Rec(r, t.parent, c, v, t.depth, t.pool)
    <3> HIDE DEF u1, u2
    <3> QED BY <2>2 DEF Rec
  <2>4. u4 = Rec(r, t.parent, c, v, e, t.pool)
    <3> HIDE DEF u1, u2, u3
    <3> QED BY <2>3 DEF Rec
  <2>5. [u4 EXCEPT !.parent = p] = Rec(r, p, c, v, e, t.pool)
    <3> HIDE DEF u1, u2, u3, u4
    <3> QED BY <2>4 DEF Rec
  <2> QED BY <2>5 DEF AsDivided
<1>4. ASSUME NEW q, NEW v, NEW c
      PROVE  AsPooled(t, q, v, c) = Rec(t.range, t.parent, c, v, t.depth, q)
  <2> DEFINE u1 == [t EXCEPT !.pool = q]
             u2 == [u1 EXCEPT !.divisor = v]
  <2>1. u1 = Rec(t.range, t.parent, t.pc, t.divisor, t.depth, q)
    BY <1>1 DEF Rec
  <2>2. u2 = Rec(t.range, t.parent, t.pc, v, t.depth, q)
    <3> HIDE DEF u1
    <3> QED BY <2>1 DEF Rec
  <2>3. [u2 EXCEPT !.pc = c] = Rec(t.range, t.parent, c, v, t.depth, q)
    <3> HIDE DEF u1, u2
    <3> QED BY <2>2 DEF Rec
  <2> QED BY <2>3 DEF AsPooled
<1>5. ASSUME NEW c, NEW q
      PROVE  AsFilled(t, c, q) = Rec(t.range, t.parent, c, t.divisor, t.depth, q)
  <2> DEFINE u1 == [t EXCEPT !.pc = c]
  <2>1. u1 = Rec(t.range, t.parent, c, t.divisor, t.depth, t.pool)
    BY <1>1 DEF Rec
  <2>2. [u1 EXCEPT !.pool = q] = Rec(t.range, t.parent, c, t.divisor, t.depth, q)
    <3> HIDE DEF u1
    <3> QED BY <2>1 DEF Rec
  <2> QED BY <2>2 DEF AsFilled
<1>6. ASSUME NEW q, NEW c
      PROVE  AsPopped(t, q, c) = Rec(t.range, t.parent, c, t.divisor, t.depth, q)
  <2> DEFINE u1 == [t EXCEPT !.pool = q]
  <2>1. u1 = Rec(t.range, t.parent, t.pc, t.divisor, t.depth, q)
    BY <1>1 DEF Rec
  <2>2. [u1 EXCEPT !.pc = c] = Rec(t.range, t.parent, c, t.divisor, t.depth, q)
    <3> HIDE DEF u1
    <3> QED BY <2>1 DEF Rec
  <2> QED BY <2>2 DEF AsPopped
<1>7. ASSUME NEW c
      PROVE  AsMoved(t, c) = Rec(t.range, t.parent, c, t.divisor, t.depth, t.pool)
  BY <1>1 DEF Rec, AsMoved
<1>8. ASSUME NEW e
      PROVE  AsDeeper(t, e) = Rec(t.range, t.parent, t.pc, t.divisor, e, t.pool)
  BY <1>1 DEF Rec, AsDeeper
<1>9. ASSUME NEW c, NEW v, NEW p
      PROVE  AsLighter(t, c, v, p) = Rec(t.range, p, c, v, t.depth, t.pool)
  <2> DEFINE u1 == [t EXCEPT !.pc = c]
             u2 == [u1 EXCEPT !.divisor = v]
  <2>1. u1 = Rec(t.range, t.parent, c, t.divisor, t.depth, t.pool)
    BY <1>1 DEF Rec
  <2>2. u2 = Rec(t.range, t.parent, c, v, t.depth, t.pool)
    <3> HIDE DEF u1
    <3> QED BY <2>1 DEF Rec
  <2>3. [u2 EXCEPT !.parent = p] = Rec(t.range, p, c, v, t.depth, t.pool)
    <3> HIDE DEF u1, u2
    <3> QED BY <2>2 DEF Rec
  <2> QED BY <2>3 DEF AsLighter
<1> QED BY <1>2, <1>3, <1>4, <1>5, <1>6, <1>7, <1>8, <1>9

\* A record of a task and its fields.
LEMMA RecFacts ==
  ASSUME NEW r, NEW p, NEW c, NEW v, NEW e, NEW q
  PROVE  LET t == Rec(r, p, c, v, e, q)
         IN  /\ t.range = r /\ t.parent = p /\ t.pc = c /\ t.divisor = v /\ t.depth = e /\ t.pool = q
             /\ (t \in TaskRecords) <=> /\ r \in CellRanges /\ p \in Ids
                                        /\ c \in Pcs
                                        /\ v \in Nat /\ e \in 0 .. Depths - 1 /\ q \in Seq(Pieces)
BY DEF Rec, TaskRecords

\* A record with fields of a task is one.
LEMMA RecIsTask ==
  ASSUME NEW r \in CellRanges, NEW p \in Ids,
         NEW c \in Pcs, NEW v \in Nat,
         NEW e \in 0 .. Depths - 1, NEW q \in Seq(Pieces)
  PROVE  Rec(r, p, c, v, e, q) \in TaskRecords
BY DEF Rec, TaskRecords

\* A range that is divided gives two with places of their own, which are its places.
LEMMA DivisionFacts ==
  ASSUME WholeOK(kind, size), NEW r, RangeOK(kind, size, r), Contract!Divisible(r),
         NEW d \in Contract!Divisions(r)
  PROVE  /\ RangeOK(kind, size, d[1]) /\ RangeOK(kind, size, d[2])
         /\ d[1].lo = r.lo /\ End(kind, d[1].hi) < d[2].lo /\ d[2].hi = r.hi
<1>1. /\ r \in CellRanges /\ r.lo \in Nat /\ r.hi \in Nat /\ r.lo + 2 <= r.hi /\ r.hi <= size
      /\ size \in Nat /\ r = [lo |-> r.lo, hi |-> r.hi]
  BY PartitionerAssumption DEF WholeOK, RangeOK, CellRanges, Contract!Divisible
<1>2. \A a : [r EXCEPT !.hi = a] = [lo |-> r.lo, hi |-> a] /\ [r EXCEPT !.lo = a] = [lo |-> a, hi |-> r.hi]
  BY <1>1
<1>3. CASE kind = "halves"
  <2> DEFINE middle == r.lo + (r.hi - r.lo) \div 2
  <2>1. d = <<[r EXCEPT !.hi = middle], [r EXCEPT !.lo = middle]>>
    BY <1>3 DEF Contract!Divisions
  <2>2. middle \in Nat /\ r.lo < middle /\ middle < r.hi
    BY <1>1
  <2> HIDE DEF middle
  <2>3. d[1] = [lo |-> r.lo, hi |-> middle] /\ d[2] = [lo |-> middle, hi |-> r.hi]
    BY <1>2, <2>1
  <2> QED BY <1>1, <1>3, <2>2, <2>3 DEF RangeOK, CellRanges, End
<1>4. CASE kind # "halves"
  <2>1. PICK i \in Contract!Cells(r) : d = <<[r EXCEPT !.hi = i], [r EXCEPT !.lo = i + 1]>>
    BY <1>4 DEF Contract!Divisions
  <2>2. i \in Nat /\ r.lo <= i /\ i < r.hi
    BY <1>1, <2>1 DEF Contract!Cells
  <2>3. d[1] = [lo |-> r.lo, hi |-> i] /\ d[2] = [lo |-> i + 1, hi |-> r.hi]
    BY <1>2, <2>1
  <2> QED BY <1>1, <1>4, <2>2, <2>3 DEF RangeOK, CellRanges, End
<1> QED BY <1>3, <1>4

\* The ranges of a task are in its places.
LEMMA RangesWithin ==
  ASSUME NEW k, NEW m, NEW t, TaskOK(k, m, t), NEW r \in RangesOf(t)
  PROVE  r.lo \in Nat /\ t.range.lo <= r.lo /\ r.lo <= LastPlace(k, t)
<1>1. Kept(t) \in Seq(Pieces) /\ RangeOK(k, m, t.range)
  BY KeptPool DEF TaskOK
<1>2. CASE ~ Begun(t)
  <2>1. r = t.range
    BY <1>2 DEF RangesOf
  <2> QED BY <1>1, <1>2, <2>1, EndFacts DEF LastPlace
<1>3. CASE Begun(t)
  <2>1. PICK p \in DOMAIN Kept(t) : r = Kept(t)[p].range
    BY <1>3 DEF RangesOf
  <2>2. RangeOK(k, m, r) /\ t.range.lo <= r.lo /\ t.range.lo \in Nat
    BY <1>1, <1>3, <2>1, EndFacts DEF TaskOK, PoolOK
  <2>3. Kept(t) # << >> /\ 1 \in DOMAIN Kept(t) /\ (p = 1 \/ 1 < p)
    BY <1>1, <2>1
  <2>4. LastPlace(k, t) = End(k, Kept(t)[1].range.hi) /\ RangeOK(k, m, Kept(t)[1].range)
    BY <1>3, <2>3 DEF LastPlace, TaskOK, PoolOK
  <2>5. CASE p = 1
    BY <2>1, <2>2, <2>4, <2>5, EndFacts
  <2>6. CASE 1 < p
    <3>1. End(k, r.hi) < Kept(t)[1].range.lo
      BY <1>3, <2>1, <2>3, <2>6 DEF TaskOK, PoolOK
    <3>2. /\ r.lo \in Nat /\ End(k, r.hi) \in Int /\ r.lo <= End(k, r.hi)
          /\ Kept(t)[1].range.lo \in Nat /\ End(k, Kept(t)[1].range.hi) \in Int
          /\ Kept(t)[1].range.lo <= End(k, Kept(t)[1].range.hi)
      BY <2>2, <2>4, EndFacts
    <3>3. r.lo <= End(k, Kept(t)[1].range.hi)
      BY <3>1, <3>2
    <3> QED BY <2>2, <2>4, <3>2, <3>3
  <2> QED BY <2>3, <2>5, <2>6
<1> QED BY <1>2, <1>3

Others(T, t) == UNION {RangesOf(v) : v \in T \ {t}}

\* No other task has a range of this one.
LEMMA RangesApart ==
  ASSUME NEW k, NEW m, NEW T, TasksOK(k, m, T), NEW t \in T, NEW r \in RangesOf(t)
  PROVE  r \notin Others(T, t)
<1> SUFFICES ASSUME NEW v \in T, v # t, r \in RangesOf(v) PROVE FALSE
  BY DEF Others
<1>1. TaskOK(k, m, t) /\ TaskOK(k, m, v)
  BY DEF TasksOK
<1>2. LastPlace(k, t) < v.range.lo \/ LastPlace(k, v) < t.range.lo
  BY DEF TasksOK
<1>3. r.lo \in Nat /\ t.range.lo <= r.lo /\ r.lo <= LastPlace(k, t)
  BY <1>1, RangesWithin
<1>4. v.range.lo <= r.lo /\ r.lo <= LastPlace(k, v)
  BY <1>1, RangesWithin
<1> QED BY <1>1, <1>2, <1>3, <1>4, PlacesOfTask

\* What is to be done, by one task and by the others.
LEMMA ReadyIs ==
  ASSUME NEW t \in tasks
  PROVE  /\ Ready = Others(tasks, t) \cup RangesOf(t)
         /\ tasks' = tasks \ {t} => Ready' = Others(tasks, t)
         /\ \A u : tasks' = (tasks \ {t}) \cup {u} => Ready' = Others(tasks, t) \cup RangesOf(u)
         /\ \A u, s : tasks' = (tasks \ {t}) \cup {u, s}
                        => Ready' = Others(tasks, t) \cup RangesOf(u) \cup RangesOf(s)
<1> DEFINE All(T) == UNION {RangesOf(v) : v \in T}
<1>1. Ready = All(tasks) /\ Ready' = All(tasks') /\ Others(tasks, t) = All(tasks \ {t})
  BY DEF Ready, Others
<1>2. \A S, R : All(S \cup R) = All(S) \cup All(R)
  OBVIOUS
<1>3. \A u, s : All({u}) = RangesOf(u) /\ All({u, s}) = RangesOf(u) \cup RangesOf(s)
  OBVIOUS
<1>4. tasks = (tasks \ {t}) \cup {t}
  OBVIOUS
<1>5. All({t}) = RangesOf(t)
  OBVIOUS
<1> HIDE DEF All
<1>6. Ready = Others(tasks, t) \cup RangesOf(t)
  BY <1>1, <1>2, <1>4, <1>5
<1>7. tasks' = tasks \ {t} => Ready' = Others(tasks, t)
  BY <1>1
<1>8. ASSUME NEW u, tasks' = (tasks \ {t}) \cup {u} PROVE Ready' = Others(tasks, t) \cup RangesOf(u)
  <2>1. All((tasks \ {t}) \cup {u}) = All(tasks \ {t}) \cup All({u})
    BY <1>2, Zenon
  <2>2. All({u}) = RangesOf(u)
    BY <1>3
  <2> QED BY <1>1, <1>8, <2>1, <2>2, Zenon
<1>9. ASSUME NEW u, NEW s, tasks' = (tasks \ {t}) \cup {u, s}
      PROVE  Ready' = Others(tasks, t) \cup RangesOf(u) \cup RangesOf(s)
  <2>1. All((tasks \ {t}) \cup {u, s}) = All(tasks \ {t}) \cup All({u, s})
    BY <1>2, Zenon
  <2>2. All({u, s}) = RangesOf(u) \cup RangesOf(s)
    BY <1>3
  <2>3. Ready' = Others(tasks, t) \cup (RangesOf(u) \cup RangesOf(s))
    BY <1>1, <1>9, <2>1, <2>2, Zenon
  <2> QED BY <2>3
<1> QED BY <1>6, <1>7, <1>8, <1>9

-----------------------------------------------------------------------------
\* What a step of a task is to the contract.
WorksOrStutters == Contract!WorkOnRanges \/ UNCHANGED <<Ready, worked, cancelled>>

\* The parts of a pool.
LEMMA PoolParts ==
  ASSUME NEW q \in Seq(Pieces), q # << >>
  PROVE  /\ Len(q) \in Nat \ {0} /\ DOMAIN q = 1 .. Len(q)
         /\ Head(q) = q[1] /\ Last(q) = q[Len(q)] /\ Last(q) \in Pieces
         /\ Front(q) \in Seq(Pieces) /\ Len(Front(q)) = Len(q) - 1
         /\ \A i \in 1 .. Len(q) - 1 : Front(q)[i] = q[i]
         /\ Tail(q) \in Seq(Pieces) /\ Len(Tail(q)) = Len(q) - 1
         /\ \A i \in 1 .. Len(q) - 1 : Tail(q)[i] = q[i + 1]
<1>1. Len(q) \in Nat \ {0} /\ DOMAIN q = 1 .. Len(q)
  OBVIOUS
<1>2. Head(q) = q[1] /\ Last(q) = q[Len(q)] /\ Last(q) \in Pieces
  BY <1>1 DEF Last
<1>3. /\ Front(q) \in Seq(Pieces) /\ Len(Front(q)) = Len(q) - 1
      /\ \A i \in 1 .. Len(q) - 1 : Front(q)[i] = q[i]
  <2>1. 1 \in 1 .. Len(q) + 1 /\ Len(q) - 1 \in 1 - 1 .. Len(q)
    BY <1>1
  <2> QED BY <1>1, <2>1, SubSeqProperties DEF Front
<1>4. /\ Tail(q) \in Seq(Pieces) /\ Len(Tail(q)) = Len(q) - 1
      /\ \A i \in 1 .. Len(q) - 1 : Tail(q)[i] = q[i + 1]
  BY <1>1, HeadTailProperties
<1> QED BY <1>1, <1>2, <1>3, <1>4

\* A task that is there, and a call that has not returned.
LEMMA TaskIsThere ==
  ASSUME IInv, NEW t \in tasks
  PROVE  /\ TaskOK(kind, size, t) /\ t \in TaskRecords /\ RangeOK(kind, size, t.range)
         /\ t.parent \in DOMAIN joins /\ ~ returned
         /\ t.range \in CellRanges /\ t.parent \in Ids /\ t.pool \in Seq(Pieces)
         /\ t.divisor \in Nat /\ t.depth \in 0 .. Depths - 1
<1>1. TreeOK(kind, size, tasks, joins) /\ WholeOK(kind, size)
  BY DEF IInv
<1>2. TaskOK(kind, size, t) /\ t.parent \in DOMAIN joins
  BY <1>1 DEF TreeOK, TasksOK, PlacesOK
<1>3. ~ returned
  BY <1>1, NoneLeft DEF IInv
<1> QED BY <1>2, <1>3 DEF TaskOK, TaskRecords

\* Depths stay depths, wrapped around or not.
LEMMA DepthFacts ==
  ASSUME NEW d \in Int
  PROVE  d % Depths \in 0 .. Depths - 1 /\ Deeper(d) \in 0 .. Depths - 1
BY PartitionerAssumption DEF Deeper

\* check_being_stolen.
LEMMA StolenStep ==
  ASSUME IInv, NEW t \in tasks, UNCHANGED <<kind, size, returned>>, Stolen(t)
  PROVE  TreeOK(kind, size, tasks', joins') /\ WorksOrStutters
<1> DEFINE e == Deeper(IF t.depth = 0 THEN 1 ELSE t.depth)
           w == [t EXCEPT !.pc = "spread", !.divisor = 1, !.depth = Deeper(IF @ = 0 THEN 1 ELSE @)]
           u == Rec(t.range, t.parent, "spread", 1, e, t.pool)
<1>1. /\ TaskOK(kind, size, t) /\ t \in TaskRecords /\ t.pool \in Seq(Pieces)
      /\ t.parent \in DOMAIN joins /\ t.range \in CellRanges /\ t.parent \in Ids
      /\ RangeOK(kind, size, t.range) /\ t.depth \in 0 .. Depths - 1
  BY TaskIsThere
<1>2. t.pc = "spawned" /\ t.divisor = 0
  BY DEF Stolen
<1>3. /\ tasks' = (tasks \ {t}) \cup {u} /\ joins' = [joins EXCEPT ![t.parent].stolen = TRUE]
      /\ worked' = worked /\ cancelled' = cancelled
  <2>1. /\ tasks' = (tasks \ {t}) \cup {w} /\ joins' = [joins EXCEPT ![t.parent].stolen = TRUE]
        /\ worked' = worked /\ cancelled' = cancelled
    BY Zenon DEF Stolen, Becomes
  <2>2. w = AsStolen(t, "spread", 1, e)
    BY Zenon DEF AsStolen
  <2>3. AsStolen(t, "spread", 1, e) = u
    <3> HIDE DEF w, e
    <3> QED BY <1>1, Updates
  <2> QED BY <2>1, <2>2, <2>3, Zenon
<1>4. e \in 0 .. Depths - 1
  <2>1. (IF t.depth = 0 THEN 1 ELSE t.depth) \in Int
    BY <1>1, PartitionerAssumption
  <2> QED BY <2>1, DepthFacts
<1> HIDE DEF e, w
<1>5. /\ u.range = t.range /\ u.parent = t.parent /\ u.pc = "spread" /\ u.pool = t.pool
      /\ u \in TaskRecords
  BY <1>1, <1>4, RecFacts DEF Pcs
<1> HIDE DEF u
<1>6. ~ Begun(u) /\ ~ Begun(t) /\ RangesOf(u) = RangesOf(t)
  BY <1>2, <1>5 DEF Begun, RangesOf
<1>7. TaskOK(kind, size, u)
  <2>1. t.parent # Waiter
    BY <1>1, <1>2 DEF TaskOK, RootOK
  <2> QED BY <1>1, <1>5, <1>6, <2>1 DEF TaskOK
<1>8. LastPlace(kind, u) = LastPlace(kind, t)
  BY <1>5, <1>6 DEF LastPlace
<1>9. TreeOK(kind, size, tasks', joins')
  <2>1. TreeOK(kind, size, tasks, joins) /\ LastPlace(kind, t) \in Int
    BY <1>1, PlacesOfTask DEF IInv
  <2>2. TreeOK(kind, size, tasks', joins)
    BY <1>3, <1>5, <1>7, <1>8, <2>1, TaskGoesOn
  <2> QED BY <1>1, <1>3, <2>2, FlagGoesUp
<1>10. Ready' = Ready
  <2>1. Ready = Others(tasks, t) \cup RangesOf(t)
    BY ReadyIs
  <2>2. Ready' = Others(tasks, t) \cup RangesOf(u)
    BY <1>3, ReadyIs, Zenon
  <2> QED BY <1>6, <2>1, <2>2, Zenon
<1> QED BY <1>3, <1>9, <1>10 DEF WorksOrStutters

\* A task of a cancelled group, or one that is done.
LEMMA FinishStep ==
  ASSUME IInv, NEW t \in tasks, UNCHANGED <<kind, size, returned>>, Finish(t),
         UNCHANGED <<worked, cancelled>>, cancelled \/ RangesOf(t) = {}
  PROVE  TreeOK(kind, size, tasks', joins') /\ WorksOrStutters
<1>1. tasks' = tasks \ {t} /\ joins' = [joins EXCEPT ![t.parent].refs = @ - 1]
  BY DEF Finish, Becomes
<1>2. TreeOK(kind, size, tasks', joins')
  <2>1. TreeOK(kind, size, tasks, joins)
    BY DEF IInv
  <2>2. TreeOK(kind, size, tasks \ {t}, [joins EXCEPT ![t.parent].refs = @ - 1])
    BY <2>1, TaskReturns
  <2> QED BY <1>1, <2>2, Zenon
<1>3. Ready' \subseteq Ready /\ (RangesOf(t) = {} => Ready' = Ready)
  BY <1>1, ReadyIs
<1>4. CASE cancelled
  <2>1. Contract!Skip
    BY <1>3, <1>4 DEF Contract!Skip
  <2>2. Contract!WorkOnRanges
    BY <2>1, TaskIsThere DEF Contract!WorkOnRanges
  <2> QED BY <1>2, <2>2 DEF WorksOrStutters
<1>5. CASE RangesOf(t) = {}
  BY <1>2, <1>3, <1>5 DEF WorksOrStutters
<1> QED BY <1>4, <1>5

\* work_balance begins.
LEMMA BalanceStep ==
  ASSUME IInv, NEW t \in tasks, UNCHANGED <<kind, size, returned>>, Balance(t)
  PROVE  TreeOK(kind, size, tasks', joins') /\ WorksOrStutters
<1> DEFINE q == <<[range |-> t.range, depth |-> 0]>>
           c == IF Contract!Divisible(t.range) /\ t.depth # 0 THEN "fill" ELSE "run"
           w == [t EXCEPT !.pool = q, !.divisor = Divisor(t), !.pc = c]
           u == Rec(t.range, t.parent, c, Divisor(t), t.depth, q)
<1>1. /\ TaskOK(kind, size, t) /\ t \in TaskRecords /\ t.pool \in Seq(Pieces)
      /\ t.parent \in DOMAIN joins /\ t.range \in CellRanges /\ t.parent \in Ids
      /\ RangeOK(kind, size, t.range) /\ t.depth \in 0 .. Depths - 1 /\ t.divisor \in Nat
  BY TaskIsThere
<1>2. t.pc \in {"spawned", "spread"} /\ ~ Spreads(t)
  BY DEF Balance
<1>3. /\ tasks' = (tasks \ {t}) \cup {u}
      /\ joins' = joins /\ worked' = worked /\ cancelled' = cancelled
  <2>1. /\ tasks' = (tasks \ {t}) \cup {w}
        /\ joins' = joins /\ worked' = worked /\ cancelled' = cancelled
    BY Zenon DEF Balance, Becomes
  <2>2. w = AsPooled(t, q, Divisor(t), c)
    BY Zenon DEF AsPooled
  <2>3. AsPooled(t, q, Divisor(t), c) = u
    <3> HIDE DEF w, q, c
    <3> QED BY <1>1, Updates
  <2> QED BY <2>1, <2>2, <2>3, Zenon
<1>4. /\ q \in Seq(Pieces) /\ q # << >> /\ DOMAIN q = {1} /\ q[1].range = t.range /\ Len(q) = 1
  BY <1>1 DEF Pieces
<1> HIDE DEF q, w
<1>5. /\ u.range = t.range /\ u.parent = t.parent /\ u.pc = c /\ u.pool = q /\ u.depth = t.depth
      /\ u.divisor = Divisor(t) /\ u \in TaskRecords
  BY <1>1, <1>4, RecFacts DEF Divisor, Pcs
<1> HIDE DEF u
<1>6. /\ Begun(u) /\ ~ Begun(t) /\ Kept(u) = q
      /\ RangesOf(u) = {t.range} /\ RangesOf(t) = {t.range}
  BY <1>2, <1>4, <1>5 DEF Begun, RangesOf, Kept
<1>7. PoolOK(kind, size, u)
  <2>1. t.range.lo \in Nat
    BY <1>1, EndFacts
  <2> QED BY <1>1, <1>4, <1>5, <1>6, <2>1 DEF PoolOK
<1>8. u.parent = Waiter => RootOK(u)
  <2> SUFFICES ASSUME t.parent = Waiter PROVE RootOK(u)
    BY <1>5
  <2>1. t.divisor # 0 /\ t.depth # 0
    BY <1>1 DEF TaskOK, RootOK
  <2>2. Divisor(t) = t.divisor /\ ~ Contract!Divisible(t.range)
    BY <1>2, <2>1 DEF Spreads, Divisor
  <2> QED BY <1>4, <1>5, <2>1, <2>2 DEF RootOK
<1>9. TaskOK(kind, size, u)
  BY <1>1, <1>4, <1>5, <1>7, <1>8 DEF TaskOK
<1>10. LastPlace(kind, u) = LastPlace(kind, t)
  BY <1>4, <1>5, <1>6 DEF LastPlace
<1>11. TreeOK(kind, size, tasks', joins')
  <2>1. TreeOK(kind, size, tasks, joins) /\ LastPlace(kind, t) \in Int
    BY <1>1, PlacesOfTask DEF IInv
  <2> QED BY <1>3, <1>5, <1>9, <1>10, <2>1, TaskGoesOn
<1>12. Ready' = Ready
  <2>1. Ready = Others(tasks, t) \cup RangesOf(t)
    BY ReadyIs
  <2>2. Ready' = Others(tasks, t) \cup RangesOf(u)
    BY <1>3, ReadyIs, Zenon
  <2> QED BY <1>6, <2>1, <2>2, Zenon
<1> QED BY <1>3, <1>11, <1>12 DEF WorksOrStutters

\* A range that is divided, or worked on, is nobody else's.
LEMMA RangeOfOne ==
  ASSUME IInv, NEW t \in tasks, NEW r \in RangesOf(t)
  PROVE  r \in Ready /\ r \notin Others(tasks, t)
<1>1. TasksOK(kind, size, tasks)
  BY DEF IInv, TreeOK
<1> QED BY <1>1, RangesApart, ReadyIs

\* execute divides the range.
LEMMA SpreadStep ==
  ASSUME IInv, NEW t \in tasks, UNCHANGED <<kind, size, returned>>, Spread(t)
  PROVE  TreeOK(kind, size, tasks', joins') /\ WorksOrStutters
<1> DEFINE half == Divisor(t) \div 2
           e == IF Divisor(t) > 1 THEN t.depth ELSE t.depth - 1
           id == <<t.range.lo, t.range.hi>>
<1>1. /\ TaskOK(kind, size, t) /\ t \in TaskRecords /\ t.pool \in Seq(Pieces) /\ ~ returned
      /\ t.parent \in DOMAIN joins /\ t.range \in CellRanges /\ t.parent \in Ids
      /\ RangeOK(kind, size, t.range) /\ t.depth \in 0 .. Depths - 1 /\ t.divisor \in Nat
  BY TaskIsThere
<1>2. /\ t.pc \in {"spawned", "spread"} /\ Contract!Divisible(t.range)
      /\ (Divisor(t) > 1 \/ (Divisor(t) # 0 /\ t.depth # 0))
      /\ cancelled' = cancelled
  BY DEF Spread, Spreads
<1>3. ~ Begun(t) /\ RangesOf(t) = {t.range} /\ LastPlace(kind, t) = End(kind, t.range.hi)
      /\ JoinId(t) = id
  BY <1>2 DEF Begun, RangesOf, LastPlace, JoinId
<1>4. half \in Nat /\ e \in 0 .. Depths - 1
  <2>1. Divisor(t) \in Nat
    BY <1>1 DEF Divisor
  <2>2. half \in Nat
    BY <2>1
  <2>3. e \in 0 .. Depths - 1
    BY <1>1, <1>2, <2>1, PartitionerAssumption
  <2> QED BY <2>2, <2>3
<1>5. PICK d \in Contract!Divisions(t.range) :
        /\ Offer(t, [t EXCEPT !.pc = "spread", !.range = d[1], !.divisor = half, !.depth = e],
                 d[2], half, e)
        /\ worked' = worked \cup Contract!Settled(t.range, d)
  BY DEF Spread
<1>6. WholeOK(kind, size) /\ TreeOK(kind, size, tasks, joins)
  BY DEF IInv
<1>7. /\ RangeOK(kind, size, d[1]) /\ RangeOK(kind, size, d[2])
      /\ d[1].lo = t.range.lo /\ End(kind, d[1].hi) < d[2].lo /\ d[2].hi = t.range.hi
  BY <1>1, <1>2, <1>6, DivisionFacts
<1> HIDE DEF half, e
<1> DEFINE w == [[t EXCEPT !.pc = "spread", !.range = d[1], !.divisor = half, !.depth = e]
                   EXCEPT !.parent = id]
           u == Rec(d[1], id, "spread", half, e, t.pool)
           s == Rec(d[2], id, "spawned", half, e, << >>)
           J == WithJoin(joins, id, t.parent)
<1>8. tasks' = (tasks \ {t}) \cup {u, s} /\ joins' = J
  <2>1. tasks' = (tasks \ {t}) \cup {w, s} /\ joins' = J
    BY <1>3, <1>5, Zenon DEF Offer, Becomes, Spawned, Rec, JoinRefs, WithJoin
  <2>2. w = AsDivided(t, "spread", d[1], half, e, id)
    BY Zenon DEF AsDivided
  <2>3. AsDivided(t, "spread", d[1], half, e, id) = u
    <3> HIDE DEF w, id
    <3> QED BY <1>1, Updates
  <2> QED BY <2>1, <2>2, <2>3, Zenon
<1> HIDE DEF w
<1>9. id \in Ids /\ id # Waiter
  <2>1. t.range.lo \in Nat /\ t.range.hi \in Nat
    BY <1>1, EndFacts
  <2> QED BY <2>1, PairsAreInner DEF Ids
<1>10. /\ u.range = d[1] /\ u.parent = id /\ u.pc = "spread" /\ u.pool = t.pool
       /\ s.range = d[2] /\ s.parent = id /\ s.pc = "spawned" /\ s.pool = << >>
  BY RecFacts
<1>11. u \in TaskRecords /\ s \in TaskRecords
  <2>1. d[1] \in CellRanges /\ d[2] \in CellRanges
    BY <1>7 DEF RangeOK
  <2>2. << >> \in Seq(Pieces)
    OBVIOUS
  <2> HIDE DEF id
  <2>3. u \in TaskRecords
    <3>1. "spread" \in Pcs
      BY DEF Pcs
    <3> QED BY <1>1, <1>4, <1>9, <2>1, <3>1, RecIsTask, Zenon
  <2>4. s \in TaskRecords
    <3>1. "spawned" \in Pcs
      BY DEF Pcs
    <3> QED BY <1>1, <1>4, <1>9, <2>1, <2>2, <3>1, RecIsTask, Zenon
  <2> QED BY <2>3, <2>4
<1> HIDE DEF u, s
<1>12. ~ Begun(u) /\ ~ Begun(s) /\ RangesOf(u) = {d[1]} /\ RangesOf(s) = {d[2]}
  BY <1>10 DEF Begun, RangesOf
<1>13. TaskOK(kind, size, u) /\ TaskOK(kind, size, s)
  BY <1>7, <1>9, <1>10, <1>11, <1>12 DEF TaskOK
<1>14. LastPlace(kind, u) = End(kind, d[1].hi) /\ LastPlace(kind, s) = End(kind, t.range.hi)
  BY <1>7, <1>10, <1>12 DEF LastPlace
<1>15. TreeOK(kind, size, tasks', joins')
  <2>1. /\ t.range.hi \in Nat /\ t.range.hi <= size /\ LastPlace(kind, t) \in Int
        /\ u.range.lo = t.range.lo /\ LastPlace(kind, u) < s.range.lo
        /\ LastPlace(kind, s) <= LastPlace(kind, t)
    BY <1>1, <1>3, <1>7, <1>10, <1>14, EndFacts
  <2>2. TreeOK(kind, size, (tasks \ {t}) \cup {u, s}, J)
    <3>1. LastPlace(kind, t) = End(kind, t.range.hi) /\ t \in tasks
      BY <1>3
    <3>2. MayOffer(kind, size, tasks, joins, t, u, s, t.range.hi)
      BY <1>6, <1>10, <1>13, <2>1, <3>1, Zenon DEF MayOffer
    <3> QED BY <3>2, OfferKeepsTree, Zenon
  <2> HIDE DEF J
  <2> QED BY <1>8, <2>2
<1>16. Contract!Divide(t.range)
  <2>1. Ready' = Others(tasks, t) \cup {d[1]} \cup {d[2]}
    <3>1. tasks' = (tasks \ {t}) \cup {u, s}
      BY <1>8
    <3>2. Ready' = Others(tasks, t) \cup RangesOf(u) \cup RangesOf(s)
      BY <3>1, ReadyIs, Zenon
    <3> QED BY <1>12, <3>2, Zenon
  <2>2. Ready = Others(tasks, t) \cup {t.range} /\ t.range \notin Others(tasks, t)
    BY <1>3, ReadyIs, RangeOfOne
  <2>3. Ready' = (Ready \ {t.range}) \cup {d[1], d[2]}
    BY <2>1, <2>2
  <2> QED BY <1>2, <1>5, <2>3 DEF Contract!Divide
<1>17. t.range \in Ready
  BY <1>3, RangeOfOne
<1> QED BY <1>1, <1>15, <1>16, <1>17 DEF WorksOrStutters, Contract!WorkOnRanges

\* A task whose parent waits for all never is at work on a pool.
LEMMA NoPoolAtTheRoot ==
  ASSUME NEW k, NEW m, NEW t, TaskOK(k, m, t), t.pc = "fill" \/ (t.pc = "loop" /\ t.pool # << >>)
  PROVE  t.parent # Waiter /\ t.pool # << >> /\ Begun(t) /\ PoolOK(k, m, t) /\ Kept(t) = t.pool
BY DEF TaskOK, RootOK, Begun, Kept

\* Where the parts of a divided range are in the pool.
LEMMA PartIndexes ==
  ASSUME NEW n \in Nat \ {0}, NEW i \in 1 .. n + 1, NEW j \in 1 .. n + 1, i < j
  PROVE  /\ j \in 1 .. n - 1 => i \in 1 .. n - 1 /\ i \in 1 .. n /\ j \in 1 .. n
         /\ j = n => i \in 1 .. n - 1
         /\ j = n + 1 /\ i # n => i \in 1 .. n - 1
         /\ j \in 1 .. n - 1 \/ j = n \/ (j = n + 1 /\ i = n) \/ (j = n + 1 /\ i # n)
OBVIOUS

\* The cells behind the first n of a concatenation.
LEMMA NextTwo ==
  ASSUME NEW n \in Nat, NEW g, NEW f, NEW z,
         \A i \in 1 .. n + 2 : g[i] = IF i <= n THEN f[i] ELSE z[i - n]
  PROVE  g[n + 1] = z[1] /\ g[n + 2] = z[2]
<1>1. n + 1 \in 1 .. n + 2 /\ n + 2 \in 1 .. n + 2
  OBVIOUS
<1>2. g[n + 1] = z[1]
  BY <1>1
<1>3. g[n + 2] = z[2]
  BY <1>1
<1> QED BY <1>2, <1>3

\* Two pieces behind the others.
LEMMA TwoMore ==
  ASSUME NEW f \in Seq(Pieces), NEW a \in Pieces, NEW b \in Pieces
  PROVE  /\ f \o <<a, b>> \in Seq(Pieces) /\ Len(f \o <<a, b>>) = Len(f) + 2
         /\ \A i \in 1 .. Len(f) : (f \o <<a, b>>)[i] = f[i]
         /\ (f \o <<a, b>>)[Len(f) + 1] = a /\ (f \o <<a, b>>)[Len(f) + 2] = b
<1> DEFINE z == <<a, b>>
<1>1. z \in Seq(Pieces) /\ Len(z) = 2 /\ z[1] = a /\ z[2] = b
  OBVIOUS
<1> HIDE DEF z
<1>2. /\ f \o z \in Seq(Pieces) /\ Len(f \o z) = Len(f) + 2
      /\ \A i \in 1 .. Len(f) + 2 : (f \o z)[i] = IF i <= Len(f) THEN f[i] ELSE z[i - Len(f)]
  <2>1. /\ f \o z \in Seq(Pieces) /\ Len(f \o z) = Len(f) + Len(z)
        /\ \A i \in 1 .. Len(f) + Len(z) :
             (f \o z)[i] = IF i <= Len(f) THEN f[i] ELSE z[i - Len(f)]
    BY <1>1, ConcatProperties, Zenon
  <2> QED BY <1>1, <2>1, Zenon
<1>3. Len(f) \in Nat
  OBVIOUS
<1> DEFINE g == f \o z
           n == Len(f)
<1>4. \A i \in 1 .. n + 2 : g[i] = IF i <= n THEN f[i] ELSE z[i - n]
  BY <1>2
<1>5. n \in Nat
  BY <1>3
<1> HIDE DEF g, n
<1>6. \A i \in 1 .. n : g[i] = f[i]
  BY <1>4, <1>5
<1>7. g[n + 1] = z[1] /\ g[n + 2] = z[2]
  BY <1>4, <1>5, NextTwo
<1> QED BY <1>1, <1>2, <1>6, <1>7 DEF g, n, z

\* The parts of the last range of a pool in its place, the left part last.
LEMMA DividedPool ==
  ASSUME NEW k, NEW m, NEW t, PoolOK(k, m, t), NEW n \in Nat \ {0}, DOMAIN t.pool = 1 .. n,
         Kept(t) = t.pool, NEW u, Kept(u) = u.pool,
         u.range = t.range, t.range.lo \in Nat, DOMAIN u.pool = 1 .. n + 1,
         \A i \in 1 .. n - 1 : u.pool[i] = t.pool[i],
         NEW a, NEW b, RangeOK(k, m, a), RangeOK(k, m, b),
         u.pool[n].range = b, u.pool[n + 1].range = a,
         a.lo = t.pool[n].range.lo, End(k, a.hi) < b.lo, b.hi = t.pool[n].range.hi
  PROVE  PoolOK(k, m, u) /\ u.pool[1].range.hi = t.pool[1].range.hi
<1> DEFINE P(i) == t.pool[i].range
           Q(i) == u.pool[i].range
<1>1. /\ \A i \in 1 .. n : RangeOK(k, m, P(i)) /\ t.range.lo <= P(i).lo
      /\ \A i, j \in 1 .. n : i < j => End(k, P(j).hi) < P(i).lo
  BY DEF PoolOK
<1>2. /\ \A i \in 1 .. n - 1 : Q(i) = P(i)
      /\ Q(n) = b /\ Q(n + 1) = a /\ a.lo = P(n).lo /\ b.hi = P(n).hi
  OBVIOUS
<1> HIDE DEF P, Q
<1>3. RangeOK(k, m, P(n)) /\ t.range.lo <= P(n).lo
  BY <1>1
<1>4. /\ a.lo \in Nat /\ b.lo \in Nat /\ End(k, a.hi) \in Int /\ End(k, b.hi) \in Int
      /\ a.lo <= End(k, a.hi) /\ b.lo <= End(k, b.hi)
  BY EndFacts
<1>5. ASSUME NEW i \in 1 .. n + 1
      PROVE  RangeOK(k, m, Q(i)) /\ t.range.lo <= Q(i).lo
  <2>1. CASE i \in 1 .. n - 1
    BY <1>1, <1>2, <2>1
  <2>2. CASE i = n
    BY <1>2, <1>3, <1>4, <2>2
  <2>3. CASE i = n + 1
    BY <1>2, <1>3, <2>3
  <2> QED BY <2>1, <2>2, <2>3
<1>6. ASSUME NEW i \in 1 .. n - 1
      PROVE  Q(i).lo \in Nat /\ End(k, b.hi) < Q(i).lo
  <2>1. Q(i).lo \in Nat
    BY <1>5, EndFacts
  <2>2. End(k, P(n).hi) < P(i).lo
    BY <1>1
  <2> QED BY <1>2, <2>1, <2>2
<1>7. ASSUME NEW i \in 1 .. n + 1, NEW j \in 1 .. n + 1, i < j
      PROVE  End(k, Q(j).hi) < Q(i).lo
  <2>1. CASE j \in 1 .. n - 1
    <3>1. i \in 1 .. n - 1 /\ i \in 1 .. n /\ j \in 1 .. n
      BY <1>7, <2>1, PartIndexes, Zenon
    <3> QED BY <1>1, <1>2, <1>7, <2>1, <3>1
  <2>2. CASE j = n
    <3>1. i \in 1 .. n - 1
      BY <1>7, <2>2, PartIndexes, Zenon
    <3> QED BY <1>2, <1>6, <2>2, <3>1
  <2>3. CASE j = n + 1 /\ i = n
    BY <1>2, <2>3
  <2>4. CASE j = n + 1 /\ i # n
    <3>1. i \in 1 .. n - 1
      BY <1>7, <2>4, PartIndexes, Zenon
    <3>2. Q(i).lo \in Nat /\ End(k, b.hi) < Q(i).lo
      BY <1>6, <3>1
    <3>3. End(k, a.hi) < Q(i).lo
      BY <1>4, <3>2
    <3> QED BY <1>2, <2>4, <3>3
  <2> QED BY <1>7, <2>1, <2>2, <2>3, <2>4, PartIndexes, Zenon
<1>8. Q(1).hi = P(1).hi
  <2>1. CASE n = 1
    BY <1>2, <2>1
  <2>2. CASE n # 1
    <3>1. 1 \in 1 .. n - 1
      BY <2>2
    <3> QED BY <1>2, <3>1
  <2> QED BY <2>1, <2>2
<1> QED BY <1>5, <1>7, <1>8 DEF P, Q, PoolOK

\* split_to_fill divides the last range of the pool.
LEMMA FillStep ==
  ASSUME IInv, NEW t \in tasks, UNCHANGED <<kind, size, returned>>, Fill(t)
  PROVE  TreeOK(kind, size, tasks', joins') /\ WorksOrStutters
<1> DEFINE n == Len(t.pool)
           r == Last(t.pool).range
           part(x) == [range |-> x, depth |-> Last(t.pool).depth + 1]
<1>1. /\ TaskOK(kind, size, t) /\ t \in TaskRecords /\ t.pool \in Seq(Pieces) /\ ~ returned
      /\ t.parent \in DOMAIN joins /\ t.range \in CellRanges /\ t.parent \in Ids
      /\ RangeOK(kind, size, t.range) /\ t.depth \in 0 .. Depths - 1 /\ t.divisor \in Nat
  BY TaskIsThere
<1>2. /\ t.pc = "fill" \/ (t.pc = "loop" /\ t.pool # << >>)
      /\ Contract!Divisible(r) /\ joins' = joins /\ cancelled' = cancelled
  BY DEF Fill, InPool, PoolDivisible
<1>3. t.parent # Waiter /\ t.pool # << >> /\ Begun(t) /\ PoolOK(kind, size, t) /\ Kept(t) = t.pool
  BY <1>1, <1>2, NoPoolAtTheRoot
<1>4. /\ n \in Nat \ {0} /\ DOMAIN t.pool = 1 .. n /\ Last(t.pool) = t.pool[n]
      /\ Last(t.pool) \in Pieces /\ Front(t.pool) \in Seq(Pieces) /\ Len(Front(t.pool)) = n - 1
      /\ \A i \in 1 .. n - 1 : Front(t.pool)[i] = t.pool[i]
  BY <1>1, <1>3, PoolParts
<1>5. PICK d \in Contract!Divisions(r) :
        /\ Becomes(t, {[t EXCEPT !.pc = "fill",
                                 !.pool = Front(@) \o <<part(d[2]), part(d[1])>>]})
        /\ worked' = worked \cup Contract!Settled(r, d)
  BY DEF Fill
<1>6. WholeOK(kind, size) /\ TreeOK(kind, size, tasks, joins)
  BY DEF IInv
<1>7. RangeOK(kind, size, r) /\ t.range.lo <= r.lo
  BY <1>3, <1>4 DEF PoolOK
<1>8. /\ RangeOK(kind, size, d[1]) /\ RangeOK(kind, size, d[2])
      /\ d[1].lo = r.lo /\ End(kind, d[1].hi) < d[2].lo /\ d[2].hi = r.hi
  BY <1>2, <1>6, <1>7, DivisionFacts
<1> DEFINE q == Front(t.pool) \o <<part(d[2]), part(d[1])>>
           w == [t EXCEPT !.pc = "fill", !.pool = Front(@) \o <<part(d[2]), part(d[1])>>]
           u == Rec(t.range, t.parent, "fill", t.divisor, t.depth, q)
<1>9. tasks' = (tasks \ {t}) \cup {u}
  <2>1. tasks' = (tasks \ {t}) \cup {w}
    BY <1>5, Zenon DEF Becomes
  <2>2. w = AsFilled(t, "fill", q)
    BY Zenon DEF AsFilled
  <2>3. AsFilled(t, "fill", q) = u
    <3> HIDE DEF w, q
    <3> QED BY <1>1, Updates
  <2> QED BY <2>1, <2>2, <2>3, Zenon
<1> HIDE DEF w
<1>10. /\ q \in Seq(Pieces) /\ Len(q) = n + 1 /\ DOMAIN q = 1 .. n + 1 /\ q # << >>
       /\ \A i \in 1 .. n - 1 : q[i] = t.pool[i]
       /\ q[n].range = d[2] /\ q[n + 1].range = d[1]
  <2>1. part(d[2]) \in Pieces /\ part(d[1]) \in Pieces
    <3>1. Last(t.pool).depth + 1 \in Nat
      BY <1>4 DEF Pieces
    <3> QED BY <1>8, <3>1 DEF Pieces, RangeOK
  <2>2. part(d[2]).range = d[2] /\ part(d[1]).range = d[1]
    OBVIOUS
  <2> DEFINE f == Front(t.pool)
  <2>3. /\ f \in Seq(Pieces) /\ Len(f) = n - 1
        /\ \A i \in 1 .. n - 1 : f[i] = t.pool[i]
    BY <1>4
  <2> HIDE DEF part, f
  <2>4. q = f \o <<part(d[2]), part(d[1])>>
    BY DEF f
  <2>5. /\ q \in Seq(Pieces) /\ Len(q) = Len(f) + 2 /\ \A i \in 1 .. Len(f) : q[i] = f[i]
        /\ q[Len(f) + 1] = part(d[2]) /\ q[Len(f) + 2] = part(d[1])
    <3> HIDE DEF q
    <3> QED BY <2>1, <2>3, <2>4, TwoMore
  <2> HIDE DEF q
  <2>6. n \in Nat \ {0} /\ Len(f) + 1 = n /\ Len(f) + 2 = n + 1
    BY <1>4, <2>3
  <2> HIDE DEF n
  <2>7. q[n] = part(d[2]) /\ q[n + 1] = part(d[1]) /\ \A i \in 1 .. n - 1 : q[i] = t.pool[i]
    BY <2>3, <2>5, <2>6
  <2>8. Len(q) = n + 1 /\ DOMAIN q = 1 .. n + 1 /\ q # << >>
    BY <2>5, <2>6
  <2> QED BY <2>2, <2>5, <2>7, <2>8
<1> HIDE DEF q
<1>11. /\ u.range = t.range /\ u.parent = t.parent /\ u.pc = "fill" /\ u.pool = q
       /\ u \in TaskRecords
  BY <1>1, <1>10, RecFacts DEF Pcs
<1> HIDE DEF u
<1>12. /\ PoolOK(kind, size, u) /\ u.pool[1].range.hi = t.pool[1].range.hi
       /\ Kept(u) = u.pool
  <2>1. t.range.lo \in Nat /\ t.pool[n].range = r
    BY <1>1, <1>4, EndFacts
  <2> HIDE DEF n, r
  <2>2. /\ n \in Nat \ {0} /\ DOMAIN t.pool = 1 .. n /\ DOMAIN u.pool = 1 .. n + 1
        /\ \A i \in 1 .. n - 1 : u.pool[i] = t.pool[i]
        /\ u.pool[n].range = d[2] /\ u.pool[n + 1].range = d[1]
    BY <1>4, <1>10, <1>11
  <2>4. Kept(u) = u.pool
    BY <1>11 DEF Kept
  <2>3. /\ d[1].lo = t.pool[n].range.lo /\ d[2].hi = t.pool[n].range.hi
        /\ End(kind, d[1].hi) < d[2].lo
    BY <1>8, <2>1
  <2> QED BY <1>3, <1>8, <1>11, <2>1, <2>2, <2>3, <2>4, DividedPool, SMTT(30)
<1>13. TaskOK(kind, size, u)
  BY <1>1, <1>3, <1>10, <1>11, <1>12 DEF TaskOK
<1>14. Begun(u)
  BY <1>11 DEF Begun
<1>15. LastPlace(kind, u) = LastPlace(kind, t)
  <2>1. LastPlace(kind, t) = End(kind, t.pool[1].range.hi) /\ LastPlace(kind, u) = End(kind, q[1].range.hi)
    BY <1>3, <1>10, <1>11, <1>12, <1>14 DEF LastPlace
  <2>2. q[1].range.hi = t.pool[1].range.hi
    BY <1>11, <1>12
  <2> QED BY <2>1, <2>2
<1>16. TreeOK(kind, size, tasks', joins')
  <2>1. LastPlace(kind, t) \in Int
    BY <1>1, PlacesOfTask
  <2> QED BY <1>2, <1>6, <1>9, <1>11, <1>13, <1>15, <2>1, TaskGoesOn
<1> DEFINE Rest == {t.pool[i].range : i \in 1 .. n - 1}
<1>17. RangesOf(t) = Rest \cup {r} /\ RangesOf(u) = Rest \cup {d[1], d[2]} /\ r \notin Rest
  <2>1. 1 .. n = (1 .. n - 1) \cup {n} /\ 1 .. n + 1 = (1 .. n - 1) \cup {n, n + 1}
    BY <1>4
  <2>2. RangesOf(t) = Rest \cup {r}
    <3>1. RangesOf(t) = {t.pool[p].range : p \in 1 .. n}
      BY <1>3, <1>4 DEF RangesOf
    <3> QED BY <1>4, <2>1, <3>1
  <2>3. RangesOf(u) = Rest \cup {d[1], d[2]}
    <3>1. RangesOf(u) = {q[p].range : p \in 1 .. n + 1}
      BY <1>10, <1>11, <1>12, <1>14 DEF RangesOf
    <3>2. RangesOf(u) = {q[p].range : p \in 1 .. n - 1} \cup {q[n].range, q[n + 1].range}
      BY <2>1, <3>1
    <3>3. {q[p].range : p \in 1 .. n - 1} = Rest
      BY <1>10
    <3> QED BY <1>10, <3>2, <3>3
  <2>4. ASSUME NEW i \in 1 .. n - 1 PROVE t.pool[i].range # r
    <3>1. i < n /\ i \in DOMAIN t.pool /\ n \in DOMAIN t.pool
      BY <1>4
    <3>2. End(kind, r.hi) < t.pool[i].range.lo
      BY <1>3, <1>4, <3>1 DEF PoolOK
    <3>3. r.lo <= End(kind, r.hi) /\ r.lo \in Nat /\ End(kind, r.hi) \in Int
      BY <1>7, EndFacts
    <3> QED BY <3>2, <3>3
  <2> QED BY <2>2, <2>3, <2>4
<1> HIDE DEF Rest, r, part
<1>18. Contract!Divide(r) /\ r \in Ready
  <2>1. Ready' = Others(tasks, t) \cup RangesOf(u)
    BY <1>9, ReadyIs, Zenon
  <2>2. Ready = Others(tasks, t) \cup RangesOf(t) /\ r \in Ready /\ r \notin Others(tasks, t)
    BY <1>17, ReadyIs, RangeOfOne
  <2>3. Ready' = (Ready \ {r}) \cup {d[1], d[2]}
    BY <1>17, <2>1, <2>2
  <2> QED BY <1>2, <1>5, <2>2, <2>3 DEF Contract!Divide
<1> QED BY <1>1, <1>16, <1>18 DEF WorksOrStutters, Contract!WorkOnRanges

\* A step of a task with the ranges it had.
LEMMA KeepsRanges ==
  ASSUME IInv, NEW t \in tasks, UNCHANGED <<kind, size, returned>>,
         NEW u, TaskOK(kind, size, u), u.parent = t.parent, u.range = t.range,
         LastPlace(kind, u) = LastPlace(kind, t), RangesOf(u) = RangesOf(t),
         tasks' = (tasks \ {t}) \cup {u}, UNCHANGED <<joins, worked, cancelled>>
  PROVE  TreeOK(kind, size, tasks', joins') /\ WorksOrStutters
<1>1. TreeOK(kind, size, tasks', joins')
  <2>1. TreeOK(kind, size, tasks, joins) /\ LastPlace(kind, t) \in Int
    BY TaskIsThere, PlacesOfTask DEF IInv
  <2>2. TreeOK(kind, size, (tasks \ {t}) \cup {u}, joins)
    BY <2>1, TaskGoesOn
  <2> QED BY <2>2
<1>2. Ready' = Ready
  <2>1. Ready = Others(tasks, t) \cup RangesOf(t)
    BY ReadyIs
  <2>2. Ready' = Others(tasks, t) \cup RangesOf(u)
    BY ReadyIs, Zenon
  <2> QED BY <2>1, <2>2, Zenon
<1> QED BY <1>1, <1>2 DEF WorksOrStutters

\* A task with the pool of another.
LEMMA SamePool ==
  ASSUME NEW k, NEW m, NEW t, TaskOK(k, m, t), Begun(t), t.pool # << >>, t.parent # Waiter,
         Kept(t) = t.pool, NEW u \in TaskRecords, u.range = t.range, u.parent = t.parent, u.pool = t.pool,
         u.pc \in {"run", "loop"}
  PROVE  TaskOK(k, m, u) /\ LastPlace(k, u) = LastPlace(k, t) /\ RangesOf(u) = RangesOf(t)
<1>1. Begun(u) /\ Kept(u) = Kept(t)
  BY DEF Begun, Kept
<1>2. PoolOK(k, m, u)
  BY <1>1 DEF TaskOK, PoolOK
<1> QED BY <1>1, <1>2 DEF TaskOK, LastPlace, RangesOf

PoolRanges(t) == {Kept(t)[p].range : p \in DOMAIN Kept(t)}

\* A pool without its first range.
LEMMA TailPool ==
  ASSUME NEW k, NEW m, NEW t, PoolOK(k, m, t), t.pool \in Seq(Pieces), Len(t.pool) > 1,
         Kept(t) = t.pool, NEW u, u.range = t.range, Kept(u) = Tail(t.pool)
  PROVE  /\ PoolOK(k, m, u) /\ Kept(u) \in Seq(Pieces) /\ Kept(u) # << >>
         /\ End(k, Kept(u)[1].range.hi) < t.pool[1].range.lo
         /\ PoolRanges(t) = PoolRanges(u) \cup {t.pool[1].range}
<1> DEFINE n == Len(t.pool)
<1>1. /\ n \in Nat /\ n > 1 /\ DOMAIN t.pool = 1 .. n
      /\ Kept(u) \in Seq(Pieces) /\ Len(Kept(u)) = n - 1
      /\ \A i \in 1 .. n - 1 : Kept(u)[i] = t.pool[i + 1]
  <2>1. t.pool # << >> /\ n > 1
    OBVIOUS
  <2>2. /\ n \in Nat \ {0} /\ DOMAIN t.pool = 1 .. n
        /\ Tail(t.pool) \in Seq(Pieces) /\ Len(Tail(t.pool)) = n - 1
        /\ \A i \in 1 .. n - 1 : Tail(t.pool)[i] = t.pool[i + 1]
    BY <2>1, PoolParts
  <2> HIDE DEF n
  <2> QED BY <2>1, <2>2
<1> HIDE DEF n
<1>2. Kept(u) # << >> /\ DOMAIN Kept(u) = 1 .. n - 1
  <2>1. Len(Kept(u)) = n - 1 /\ Len(Kept(u)) # 0
    BY <1>1
  <2>2. DOMAIN Kept(u) = 1 .. Len(Kept(u))
    BY <1>1
  <2>3. ASSUME Kept(u) = << >> PROVE FALSE
    <3>1. Len(<< >>) = 0
      OBVIOUS
    <3> QED BY <2>1, <2>3, <3>1, Zenon
  <2>4. DOMAIN Kept(u) = 1 .. n - 1
    BY <2>1, <2>2, Zenon
  <2> QED BY <2>3, <2>4
<1>3. \A i \in 1 .. n - 1 : i + 1 \in 1 .. n
  BY <1>1
<1>4. ASSUME NEW i \in 1 .. n - 1
      PROVE  RangeOK(k, m, Kept(u)[i].range) /\ u.range.lo <= Kept(u)[i].range.lo
  BY <1>1, <1>3 DEF PoolOK
<1>5. ASSUME NEW i \in 1 .. n - 1, NEW j \in 1 .. n - 1, i < j
      PROVE  End(k, Kept(u)[j].range.hi) < Kept(u)[i].range.lo
  <2>1. i + 1 \in 1 .. n /\ j + 1 \in 1 .. n /\ i + 1 < j + 1
    BY <1>3, <1>5
  <2>2. End(k, t.pool[j + 1].range.hi) < t.pool[i + 1].range.lo
    BY <1>1, <2>1 DEF PoolOK
  <2> QED BY <1>1, <2>2
<1>6. PoolOK(k, m, u)
  BY <1>2, <1>4, <1>5 DEF PoolOK
<1>7. End(k, Kept(u)[1].range.hi) < t.pool[1].range.lo
  <2>1. 1 \in 1 .. n - 1 /\ 1 \in 1 .. n /\ 2 \in 1 .. n
    BY <1>1
  <2>2. Kept(u)[1] = t.pool[2]
    BY <1>1, <2>1
  <2>3. End(k, t.pool[2].range.hi) < t.pool[1].range.lo
    BY <1>1, <2>1 DEF PoolOK
  <2> QED BY <2>2, <2>3
<1>8. PoolRanges(t) = PoolRanges(u) \cup {t.pool[1].range}
  <2>1. ASSUME NEW p \in 1 .. n
        PROVE  t.pool[p].range \in {Kept(u)[i].range : i \in 1 .. n - 1} \cup {t.pool[1].range}
    <3>1. CASE p = 1
      BY <3>1
    <3>2. CASE p # 1
      <4>1. p - 1 \in 1 .. n - 1 /\ (p - 1) + 1 = p
        BY <1>1, <3>2
      <4>2. PICK i \in 1 .. n - 1 : i + 1 = p
        BY <4>1
      <4>3. Kept(u)[i] = t.pool[p]
        BY <1>1, <4>2
      <4> QED BY <4>3
    <3> QED BY <3>1, <3>2
  <2>2. ASSUME NEW i \in 1 .. n - 1 PROVE Kept(u)[i].range \in {t.pool[p].range : p \in 1 .. n}
    BY <1>1, <1>3
  <2>3. 1 \in 1 .. n
    BY <1>1
  <2>4. /\ PoolRanges(t) = {t.pool[p].range : p \in 1 .. n}
        /\ PoolRanges(u) = {Kept(u)[i].range : i \in 1 .. n - 1}
    <3>1. Kept(t) = t.pool
      OBVIOUS
    <3>2. DOMAIN Kept(t) = 1 .. n /\ DOMAIN Kept(u) = 1 .. n - 1
      BY <1>1, <1>2
    <3> QED BY <3>1, <3>2 DEF PoolRanges
  <2> QED BY <2>1, <2>2, <2>3, <2>4
<1> QED BY <1>1, <1>2, <1>6, <1>7, <1>8

\* A pool without its last range.
LEMMA FrontPool ==
  ASSUME NEW k, NEW m, NEW t, PoolOK(k, m, t), t.pool \in Seq(Pieces), t.pool # << >>,
         Kept(t) = t.pool, NEW u, Kept(u) = u.pool, u.range = t.range, u.pool = Front(t.pool)
  PROVE  /\ PoolOK(k, m, u) /\ u.pool \in Seq(Pieces) /\ (Len(t.pool) = 1 => u.pool = << >>)
         /\ u.pool # << >> => u.pool[1] = t.pool[1]
         /\ LET r == Last(t.pool).range
                Rest == PoolRanges(u)
            IN  PoolRanges(t) = Rest \cup {r} /\ r \notin Rest
<1> DEFINE n == Len(t.pool)
           r == Last(t.pool).range
<1>1. /\ n \in Nat \ {0} /\ DOMAIN t.pool = 1 .. n /\ r = t.pool[n].range
      /\ u.pool \in Seq(Pieces) /\ Len(u.pool) = n - 1
      /\ \A i \in 1 .. n - 1 : u.pool[i] = t.pool[i]
  BY PoolParts
<1>2. /\ DOMAIN u.pool = 1 .. n - 1 /\ (n = 1 => u.pool = << >>)
      /\ (u.pool # << >> => 1 \in 1 .. n - 1)
  BY <1>1
<1> HIDE DEF n, r
<1>3. 1 .. n = (1 .. n - 1) \cup {n}
  BY <1>1
<1>4. PoolOK(k, m, u)
  <2>1. ASSUME NEW i \in 1 .. n - 1
        PROVE  RangeOK(k, m, u.pool[i].range) /\ u.range.lo <= u.pool[i].range.lo
    BY <1>1, <1>3 DEF PoolOK
  <2>2. ASSUME NEW i \in 1 .. n - 1, NEW j \in 1 .. n - 1, i < j
        PROVE  End(k, u.pool[j].range.hi) < u.pool[i].range.lo
    BY <1>1, <1>3, <2>2 DEF PoolOK
  <2> QED BY <1>2, <2>1, <2>2 DEF PoolOK
<1>5. u.pool # << >> => u.pool[1] = t.pool[1]
  BY <1>1, <1>2
<1>6. ASSUME NEW i \in 1 .. n - 1 PROVE u.pool[i].range # r
  <2>1. i < n /\ i \in 1 .. n /\ n \in 1 .. n
    BY <1>1
  <2>2. End(k, r.hi) < u.pool[i].range.lo /\ RangeOK(k, m, r)
    BY <1>1, <2>1 DEF PoolOK
  <2> QED BY <2>2, EndFacts
<1>7. PoolRanges(t) = PoolRanges(u) \cup {r}
  <2>1. {t.pool[p].range : p \in 1 .. n} = {t.pool[p].range : p \in 1 .. n - 1} \cup {t.pool[n].range}
    BY <1>3
  <2>2. {t.pool[p].range : p \in 1 .. n - 1} = {u.pool[p].range : p \in 1 .. n - 1}
    BY <1>1
  <2> QED BY <1>1, <1>2, <2>1, <2>2 DEF PoolRanges
<1>8. r \notin PoolRanges(u)
  BY <1>2, <1>6 DEF PoolRanges
<1> QED BY <1>1, <1>2, <1>4, <1>5, <1>7, <1>8 DEF n, r

\* check_for_demand: the body is next, or the depth grows, or the first range is offered.
LEMMA DemandStep ==
  ASSUME IInv, NEW t \in tasks, UNCHANGED <<kind, size, returned>>, Demand(t)
  PROVE  TreeOK(kind, size, tasks', joins') /\ WorksOrStutters
<1> DEFINE e == Deeper(t.depth)
           f == Head(t.pool)
           x == AsDeeper(t, e)
           tx == Rec(t.range, t.parent, t.pc, t.divisor, e, t.pool)
<1>1. /\ TaskOK(kind, size, t) /\ t \in TaskRecords /\ t.pool \in Seq(Pieces)
      /\ t.parent \in DOMAIN joins /\ t.range \in CellRanges /\ t.parent \in Ids
      /\ RangeOK(kind, size, t.range) /\ t.depth \in 0 .. Depths - 1 /\ t.divisor \in Nat
  BY TaskIsThere
<1>2. t.pc = "fill" \/ (t.pc = "loop" /\ t.pool # << >>)
  BY DEF Demand, InPool
<1>3. t.parent # Waiter /\ t.pool # << >> /\ Begun(t) /\ PoolOK(kind, size, t) /\ Kept(t) = t.pool
  BY <1>1, <1>2, NoPoolAtTheRoot
<1>4. worked' = worked /\ cancelled' = cancelled /\ e \in 0 .. Depths - 1
  BY <1>1, DepthFacts DEF Demand
<1>5. x = tx
  BY <1>1, Updates
<1>6. tx \in TaskRecords
  <2>1. t.pc \in Pcs
    BY <1>2 DEF Pcs
  <2> HIDE DEF e
  <2> QED BY <1>1, <1>4, <2>1, RecIsTask, Zenon
<1>7. /\ tx.range = t.range /\ tx.parent = t.parent /\ tx.divisor = t.divisor
      /\ tx.depth = e /\ tx.pool = t.pool
  BY RecFacts
<1> HIDE DEF tx
<1>8. CASE tasks' = (tasks \ {t}) \cup {AsMoved(t, "run")} /\ joins' = joins
  <2> DEFINE u == Rec(t.range, t.parent, "run", t.divisor, t.depth, t.pool)
  <2>1. AsMoved(t, "run") = u
    BY <1>1, Updates
  <2>2. u \in TaskRecords
    <3>1. "run" \in Pcs
      BY DEF Pcs
    <3> QED BY <1>1, <3>1, RecIsTask, Zenon
  <2>3. u.range = t.range /\ u.parent = t.parent /\ u.pool = t.pool /\ u.pc \in {"run", "loop"}
    BY RecFacts
  <2> HIDE DEF u
  <2>4. TaskOK(kind, size, u) /\ LastPlace(kind, u) = LastPlace(kind, t) /\ RangesOf(u) = RangesOf(t)
    BY <1>1, <1>3, <2>2, <2>3, SamePool
  <2>5. tasks' = (tasks \ {t}) \cup {u} /\ joins' = joins
    BY <1>8, <2>1, Zenon
  <2> QED BY <1>4, <2>3, <2>4, <2>5, KeepsRanges
<1>9. ASSUME NEW c \in {"run", "loop"},
              tasks' = (tasks \ {t}) \cup {AsMoved(tx, c)}, joins' = joins
       PROVE  TreeOK(kind, size, tasks', joins') /\ WorksOrStutters
  <2> DEFINE u == Rec(t.range, t.parent, c, t.divisor, e, t.pool)
  <2>1. AsMoved(tx, c) = u
    <3>1. AsMoved(tx, c) = Rec(tx.range, tx.parent, c, tx.divisor, tx.depth, tx.pool)
      BY <1>6, Updates
    <3> QED BY <1>7, <3>1, Zenon
  <2>2. u \in TaskRecords
    <3>1. c \in Pcs
      BY <1>9 DEF Pcs
    <3> HIDE DEF e
    <3> QED BY <1>1, <1>4, <3>1, RecIsTask, Zenon
  <2>3. u.range = t.range /\ u.parent = t.parent /\ u.pool = t.pool /\ u.pc \in {"run", "loop"}
    BY <1>9, RecFacts
  <2> HIDE DEF u
  <2>4. TaskOK(kind, size, u) /\ LastPlace(kind, u) = LastPlace(kind, t) /\ RangesOf(u) = RangesOf(t)
    BY <1>1, <1>3, <2>2, <2>3, SamePool
  <2>5. tasks' = (tasks \ {t}) \cup {u} /\ joins' = joins
    BY <1>9, <2>1, Zenon
  <2> QED BY <1>4, <2>3, <2>4, <2>5, KeepsRanges
<1>10. CASE /\ Len(t.pool) > 1
            /\ Offer(t, [tx EXCEPT !.pc = "pop", !.divisor = @ \div 2],
                     f.range, t.divisor \div 2, (tx.depth - f.depth) % Depths)
  <2> DEFINE half == t.divisor \div 2
             b == f.range.hi
             id == <<t.range.lo, b>>
             g == (e - f.depth) % Depths
             w == [[tx EXCEPT !.pc = "pop", !.divisor = @ \div 2]
                     EXCEPT !.parent = id]
             u == Rec(t.range, id, "pop", half, e, t.pool)
             s == Rec(f.range, id, "spawned", half, g, << >>)
  <2>1. f = t.pool[1] /\ 1 \in DOMAIN t.pool /\ f \in Pieces /\ Tail(t.pool) \in Seq(Pieces)
    BY <1>1, <1>3, PoolParts
  <2>2. half \in Nat /\ g \in 0 .. Depths - 1
    <3>1. half \in Nat
      BY <1>1
    <3>2. f.depth \in Int /\ e \in Int
      BY <1>4, <2>1, PartitionerAssumption DEF Pieces
    <3>3. e - f.depth \in Int
      BY <3>2
    <3> QED BY <3>1, <3>3, DepthFacts
  <2>3. RangeOK(kind, size, f.range) /\ t.range.lo <= f.range.lo /\ f.range \in CellRanges
    BY <1>3, <2>1 DEF PoolOK, RangeOK
  <2>4. b \in Nat /\ b <= size /\ t.range.lo \in Nat
    BY <1>1, <2>3, EndFacts
  <2>5. id \in Ids /\ id # Waiter
    BY <2>4, PairsAreInner DEF Ids
  <2>6. JoinId(t) = id /\ LastPlace(kind, t) = End(kind, b)
    BY <1>3, <2>1 DEF JoinId, LastPlace
  <2>7. tasks' = (tasks \ {t}) \cup {u, s} /\ joins' = WithJoin(joins, id, t.parent)
    <3>1. tasks' = (tasks \ {t}) \cup {w, s} /\ joins' = WithJoin(joins, id, t.parent)
      BY <1>7, <1>10, <2>6, Zenon DEF Offer, Becomes, Spawned, Rec, JoinRefs, WithJoin
    <3>2. w = AsLighter(tx, "pop", tx.divisor \div 2, id)
      BY Zenon DEF AsLighter
    <3>3. AsLighter(tx, "pop", tx.divisor \div 2, id)
            = Rec(tx.range, id, "pop", tx.divisor \div 2, tx.depth, tx.pool)
      <4>1. \A c, v, p : AsLighter(tx, c, v, p) = Rec(tx.range, p, c, v, tx.depth, tx.pool)
        BY <1>6, Updates
      <4> HIDE DEF w, id
      <4> QED BY <4>1, Zenon
    <3> QED BY <1>7, <3>1, <3>2, <3>3, Zenon
  <2> HIDE DEF w
  <2>8. /\ u.range = t.range /\ u.parent = id /\ u.pc = "pop" /\ u.pool = t.pool
        /\ s.range = f.range /\ s.parent = id /\ s.pc = "spawned"
    BY RecFacts
  <2>9. u \in TaskRecords /\ s \in TaskRecords
    <3>1. "pop" \in Pcs /\ "spawned" \in Pcs /\ << >> \in Seq(Pieces)
      BY DEF Pcs
    <3> HIDE DEF id, half, e, g, f
    <3>2. u \in TaskRecords
      BY <1>1, <1>4, <2>1, <2>2, <2>5, <3>1, RecIsTask, Zenon
    <3>3. s \in TaskRecords
      BY <2>2, <2>3, <2>5, <3>1, RecIsTask, Zenon
    <3> QED BY <3>2, <3>3
  <2> HIDE DEF u, s
  <2>10. /\ PoolOK(kind, size, u) /\ Kept(u) # << >> /\ End(kind, Kept(u)[1].range.hi) < f.range.lo
         /\ PoolRanges(t) = PoolRanges(u) \cup {f.range}
    <3>1. Len(t.pool) > 1
      BY <1>10
    <3>2. /\ PoolOK(kind, size, u) /\ Kept(u) # << >>
          /\ End(kind, Kept(u)[1].range.hi) < t.pool[1].range.lo
          /\ PoolRanges(t) = PoolRanges(u) \cup {t.pool[1].range}
      <4>1. PoolOK(kind, size, t) /\ t.pool \in Seq(Pieces) /\ Kept(t) = t.pool
        BY <1>1, <1>3
      <4>2. u.range = t.range /\ Kept(u) = Tail(t.pool)
        BY <2>8 DEF Kept
      <4> QED BY <3>1, <4>1, <4>2, TailPool, ZenonT(40)
    <3> HIDE DEF f
    <3> QED BY <2>1, <3>2
  <2>11. Begun(u) /\ ~ Begun(s)
    BY <2>8 DEF Begun
  <2>12. TaskOK(kind, size, u) /\ TaskOK(kind, size, s)
    BY <1>1, <1>10, <2>3, <2>5, <2>8, <2>9, <2>10, <2>11 DEF TaskOK
  <2>13. /\ LastPlace(kind, u) < s.range.lo /\ LastPlace(kind, s) = LastPlace(kind, t)
         /\ LastPlace(kind, t) \in Int
    <3>1. LastPlace(kind, u) = End(kind, Kept(u)[1].range.hi)
      BY <2>10, <2>11 DEF LastPlace
    <3>2. LastPlace(kind, s) = End(kind, b)
      BY <2>8, <2>11 DEF LastPlace
    <3> QED BY <1>1, <2>6, <2>8, <2>10, <3>1, <3>2, PlacesOfTask
  <2>14. TreeOK(kind, size, tasks', joins')
    <3>1. TreeOK(kind, size, tasks, joins)
      BY DEF IInv
    <3>2. LastPlace(kind, s) <= LastPlace(kind, t) /\ u.range.lo = t.range.lo
      BY <2>8, <2>13
    <3> HIDE DEF f
    <3>3. MayOffer(kind, size, tasks, joins, t, u, s, b)
      BY <2>4, <2>6, <2>8, <2>12, <2>13, <3>1, <3>2, Zenon DEF MayOffer
    <3> HIDE DEF b
    <3> QED BY <2>7, <3>3, OfferKeepsTree, Zenon
  <2>15. Ready' = Ready
    <3>1. /\ RangesOf(t) = RangesOf(u) \cup {f.range} /\ RangesOf(s) = {f.range}
      BY <1>3, <2>8, <2>10, <2>11 DEF RangesOf, PoolRanges
    <3>2. Ready = Others(tasks, t) \cup RangesOf(t)
      BY ReadyIs
    <3>3. tasks' = (tasks \ {t}) \cup {u, s}
      BY <2>7
    <3>4. Ready' = Others(tasks, t) \cup RangesOf(u) \cup RangesOf(s)
      BY <3>3, ReadyIs, Zenon
    <3> QED BY <3>1, <3>2, <3>4
  <2> QED BY <1>4, <2>14, <2>15 DEF WorksOrStutters
<1>11. \/ tasks' = (tasks \ {t}) \cup {AsMoved(t, "run")} /\ joins' = joins
       \/ /\ Len(t.pool) > 1
          /\ Offer(t, [tx EXCEPT !.pc = "pop", !.divisor = @ \div 2],
                   f.range, t.divisor \div 2, (tx.depth - f.depth) % Depths)
       \/ /\ tasks' = (tasks \ {t}) \cup {AsMoved(tx, IF FillsAgain(tx) THEN "loop" ELSE "run")}
          /\ joins' = joins
  <2>1. [t EXCEPT !.depth = Deeper(@)] = tx
    BY <1>5, Zenon DEF AsDeeper
  <2> HIDE DEF e, f
  <2>2. \/ tasks' = (tasks \ {t}) \cup {[t EXCEPT !.pc = "run"]} /\ joins' = joins
        \/ /\ Len(t.pool) > 1
           /\ Offer(t, [tx EXCEPT !.pc = "pop", !.divisor = @ \div 2],
                    f.range, t.divisor \div 2, (tx.depth - f.depth) % Depths)
        \/ /\ tasks' = (tasks \ {t}) \cup {[tx EXCEPT !.pc = IF FillsAgain(tx) THEN "loop" ELSE "run"]}
           /\ joins' = joins
    BY <2>1, Zenon DEF Demand, Becomes, f
  <2> QED BY <2>2, Zenon DEF AsMoved
<1> HIDE DEF f
<1>12. CASE /\ tasks' = (tasks \ {t}) \cup {AsMoved(tx, IF FillsAgain(tx) THEN "loop" ELSE "run")}
            /\ joins' = joins
  <2>1. (IF FillsAgain(tx) THEN "loop" ELSE "run") \in {"run", "loop"}
    OBVIOUS
  <2> QED BY <1>9, <1>12, <2>1, Zenon
<1> QED BY <1>8, <1>10, <1>11, <1>12, Zenon

\* pop_front: the task loses what it does not keep.
LEMMA PopFrontStep ==
  ASSUME IInv, NEW t \in tasks, UNCHANGED <<kind, size, returned>>, PopFront(t)
  PROVE  TreeOK(kind, size, tasks', joins') /\ WorksOrStutters
<1> DEFINE q == Tail(t.pool)
           w == [t EXCEPT !.pool = WithoutFirst(@), !.pc = "loop"]
           u == Rec(t.range, t.parent, "loop", t.divisor, t.depth, q)
<1>1. /\ TaskOK(kind, size, t) /\ t \in TaskRecords
      /\ t.range \in CellRanges /\ t.parent \in Ids
      /\ t.depth \in 0 .. Depths - 1 /\ t.divisor \in Nat
  BY TaskIsThere
<1>2. t.pc = "pop" /\ UNCHANGED <<joins, worked, cancelled>>
  BY DEF PopFront
<1>3. Begun(t) /\ Kept(t) = q /\ q \in Seq(Pieces) /\ PoolOK(kind, size, t) /\ t.parent # Waiter
  BY <1>1, <1>2, KeptPool DEF TaskOK, RootOK, Begun, Kept
<1>4. tasks' = (tasks \ {t}) \cup {u}
  <2>1. tasks' = (tasks \ {t}) \cup {w}
    BY Zenon DEF PopFront, Becomes
  <2>2. w = AsPopped(t, q, "loop")
    BY Zenon DEF AsPopped, WithoutFirst
  <2>3. AsPopped(t, q, "loop") = u
    <3> HIDE DEF w, q
    <3> QED BY <1>1, Updates
  <2> QED BY <2>1, <2>2, <2>3, Zenon
<1> HIDE DEF w, q
<1>5. u.range = t.range /\ u.parent = t.parent /\ u.pc = "loop" /\ u.pool = q
  BY RecFacts
<1>6. u \in TaskRecords
  <2>1. "loop" \in Pcs
    BY DEF Pcs
  <2> QED BY <1>1, <1>3, <2>1, RecIsTask, Zenon
<1> HIDE DEF u
<1>7. Begun(u) /\ Kept(u) = Kept(t)
  BY <1>3, <1>5 DEF Begun, Kept
<1>8. TaskOK(kind, size, u)
  <2>1. PoolOK(kind, size, u)
    BY <1>3, <1>5, <1>7 DEF PoolOK
  <2> QED BY <1>1, <1>3, <1>5, <1>6, <2>1 DEF TaskOK
<1>9. LastPlace(kind, u) = LastPlace(kind, t) /\ RangesOf(u) = RangesOf(t)
  BY <1>3, <1>5, <1>7 DEF LastPlace, RangesOf
<1> QED BY <1>2, <1>4, <1>5, <1>8, <1>9, KeepsRanges

\* run_body works on the last range of the pool, and pop_back.
LEMMA RunStep ==
  ASSUME IInv, NEW t \in tasks, UNCHANGED <<kind, size, returned>>, Run(t)
  PROVE  TreeOK(kind, size, tasks', joins') /\ WorksOrStutters
<1> DEFINE r == Last(t.pool).range
           q == Front(t.pool)
           w == [t EXCEPT !.pool = Front(@), !.pc = "loop"]
           u == Rec(t.range, t.parent, "loop", t.divisor, t.depth, q)
<1>1. /\ TaskOK(kind, size, t) /\ t \in TaskRecords /\ t.pool \in Seq(Pieces) /\ ~ returned
      /\ t.parent \in DOMAIN joins /\ t.range \in CellRanges /\ t.parent \in Ids
      /\ RangeOK(kind, size, t.range) /\ t.depth \in 0 .. Depths - 1 /\ t.divisor \in Nat
  BY TaskIsThere
<1>2. /\ t.pc = "run" /\ joins' = joins /\ worked' = worked \cup Contract!Cells(r)
      /\ cancelled' \in {cancelled} \cup (IF kind = "halves" THEN {TRUE} ELSE {})
  BY DEF Run
<1>3. t.pool # << >> /\ Begun(t) /\ PoolOK(kind, size, t) /\ Kept(t) = t.pool
  BY <1>1, <1>2 DEF TaskOK, Begun, Kept
<1>4. q \in Seq(Pieces)
  BY <1>1, <1>3, PoolParts
<1>5. tasks' = (tasks \ {t}) \cup {u}
  <2>1. tasks' = (tasks \ {t}) \cup {w}
    BY Zenon DEF Run, Becomes
  <2>2. w = AsPopped(t, q, "loop")
    BY Zenon DEF AsPopped
  <2>3. AsPopped(t, q, "loop") = u
    <3> HIDE DEF w, q
    <3> QED BY <1>1, Updates
  <2> QED BY <2>1, <2>2, <2>3, Zenon
<1> HIDE DEF w
<1>6. /\ u.range = t.range /\ u.parent = t.parent /\ u.pc = "loop" /\ u.pool = q
      /\ u.divisor = t.divisor /\ u.depth = t.depth
  BY RecFacts
<1>7. u \in TaskRecords
  <2>1. "loop" \in Pcs
    BY DEF Pcs
  <2> HIDE DEF q
  <2> QED BY <1>1, <1>4, <2>1, RecIsTask, Zenon
<1> HIDE DEF u
<1>8. /\ PoolOK(kind, size, u) /\ (Len(t.pool) = 1 => u.pool = << >>)
      /\ u.pool # << >> => u.pool[1] = t.pool[1]
      /\ PoolRanges(t) = PoolRanges(u) \cup {r} /\ r \notin PoolRanges(u)
  <2>1. Kept(u) = u.pool
    BY <1>6 DEF Kept
  <2> QED BY <1>1, <1>3, <1>6, <2>1, FrontPool
<1> HIDE DEF q, r
<1>9. Begun(u) /\ Kept(u) = u.pool
  BY <1>6 DEF Begun, Kept
<1>10. u.parent = Waiter => RootOK(u)
  <2> SUFFICES ASSUME t.parent = Waiter PROVE RootOK(u)
    BY <1>6
  <2>1. t.divisor # 0 /\ t.depth # 0 /\ Len(t.pool) = 1
    BY <1>1, <1>2 DEF TaskOK, RootOK
  <2> QED BY <1>6, <1>8, <2>1 DEF RootOK
<1>11. TaskOK(kind, size, u)
  BY <1>1, <1>6, <1>7, <1>8, <1>10 DEF TaskOK
<1>12. LastPlace(kind, u) <= LastPlace(kind, t)
  <2>1. LastPlace(kind, t) = End(kind, t.pool[1].range.hi)
    BY <1>3 DEF LastPlace
  <2>2. CASE u.pool = << >>
    BY <1>1, <1>6, <1>9, <2>2, PlacesOfTask DEF LastPlace
  <2>3. CASE u.pool # << >>
    <3>1. LastPlace(kind, u) = LastPlace(kind, t)
      BY <1>8, <1>9, <2>1, <2>3 DEF LastPlace
    <3> QED BY <1>1, <3>1, PlacesOfTask
  <2> QED BY <2>2, <2>3
<1>13. TreeOK(kind, size, tasks', joins')
  <2>1. TreeOK(kind, size, tasks, joins)
    BY DEF IInv
  <2>2. TreeOK(kind, size, (tasks \ {t}) \cup {u}, joins)
    BY <1>6, <1>11, <1>12, <2>1, TaskGoesOn
  <2> QED BY <1>2, <1>5, <2>2
<1>14. RangesOf(t) = PoolRanges(t) /\ RangesOf(u) = PoolRanges(u)
  BY <1>3, <1>9 DEF RangesOf, PoolRanges
<1>15. Contract!Work(r) /\ r \in Ready
  <2>1. Ready' = Others(tasks, t) \cup RangesOf(u)
    BY <1>5, ReadyIs, Zenon
  <2>2. Ready = Others(tasks, t) \cup RangesOf(t) /\ r \in Ready /\ r \notin Others(tasks, t)
    BY <1>8, <1>14, ReadyIs, RangeOfOne
  <2>3. Ready' = Ready \ {r}
    BY <1>8, <1>14, <2>1, <2>2
  <2> QED BY <1>2, <2>2, <2>3 DEF Contract!Work
<1> QED BY <1>1, <1>13, <1>15 DEF WorksOrStutters, Contract!WorkOnRanges

\* A task that left its loop has worked on all its ranges, unless the group is cancelled.
LEMMA LeaveStep ==
  ASSUME IInv, NEW t \in tasks, UNCHANGED <<kind, size, returned>>, Leave(t)
  PROVE  TreeOK(kind, size, tasks', joins') /\ WorksOrStutters
<1>1. Finish(t) /\ UNCHANGED <<worked, cancelled>> /\ t.pc = "loop" /\ (t.pool = << >> \/ cancelled)
  BY DEF Leave
<1>2. t.pool = << >> => RangesOf(t) = {}
  BY <1>1 DEF RangesOf, Begun, Kept
<1> QED BY <1>1, <1>2, FinishStep

\* The scheduler drops a task of a cancelled group.
LEMMA DropStep ==
  ASSUME IInv, NEW t \in tasks, UNCHANGED <<kind, size, returned>>, Drop(t)
  PROVE  TreeOK(kind, size, tasks', joins') /\ WorksOrStutters
BY FinishStep DEF Drop

\* Every step of a task.
LEMMA TaskStepFacts ==
  ASSUME IInv, TaskStep
  PROVE  IInv' /\ [Contract!Next]_(Contract!vars)
<1>1. UNCHANGED <<kind, size, returned>>
  BY DEF TaskStep
<1>2. PICK t \in tasks : \/ Drop(t) \/ Stolen(t) \/ Spread(t) \/ Balance(t) \/ Fill(t)
                         \/ Demand(t) \/ PopFront(t) \/ Run(t) \/ Leave(t)
  BY Zenon DEF TaskStep
<1>3. TreeOK(kind, size, tasks', joins') /\ WorksOrStutters
  <2>1. CASE Drop(t)
    BY <1>1, <2>1, DropStep
  <2>2. CASE Stolen(t)
    BY <1>1, <2>2, StolenStep
  <2>3. CASE Spread(t)
    BY <1>1, <2>3, SpreadStep
  <2>4. CASE Balance(t)
    BY <1>1, <2>4, BalanceStep
  <2>5. CASE Fill(t)
    BY <1>1, <2>5, FillStep
  <2>6. CASE Demand(t)
    BY <1>1, <2>6, DemandStep
  <2>7. CASE Run(t)
    BY <1>1, <2>7, RunStep
  <2>8. CASE Leave(t)
    BY <1>1, <2>8, LeaveStep
  <2>9. CASE PopFront(t)
    BY <1>1, <2>9, PopFrontStep
  <2> QED BY <1>2, <2>1, <2>2, <2>3, <2>4, <2>5, <2>6, <2>7, <2>8, <2>9, Zenon
<1>4. ~ returned
  BY TaskIsThere
<1>5. IInv'
  <2>1. WholeOK(kind, size)'
    BY <1>1 DEF IInv, WholeOK
  <2>2. TreeOK(kind, size, tasks, joins)'
    BY <1>1, <1>3
  <2> QED BY <1>1, <1>4, <2>1, <2>2 DEF IInv
<1>6. [Contract!Next]_(Contract!vars)
  <2>1. CASE Contract!WorkOnRanges
    BY <2>1 DEF Contract!Next
  <2>2. CASE UNCHANGED <<Ready, worked, cancelled>>
    BY <1>1, <2>2 DEF Contract!vars
  <2> QED BY <1>3, <2>1, <2>2 DEF WorksOrStutters
<1> QED BY <1>5, <1>6

\* A join returns.
LEMMA JoinFacts ==
  ASSUME IInv, Join
  PROVE  IInv' /\ UNCHANGED Contract!vars
<1>1. /\ UNCHANGED <<kind, size, tasks, worked, cancelled, returned>>
      /\ TreeOK(kind, size, tasks, joins) /\ WholeOK(kind, size)
  BY DEF Join, IInv
<1>2. PICK id \in Inner(joins) :
        /\ joins[id].refs = 0
        /\ joins' = LET rest == [x \in DOMAIN joins \ {id} |-> joins[x]]
                    IN  [rest EXCEPT ![joins[id].parent].refs = @ - 1]
  BY DEF Join, Inner
<1>3. TreeOK(kind, size, tasks, joins')
  BY <1>1, <1>2, JoinReturns
<1>4. ~ returned
  BY <1>1, NoneLeft DEF IInv
<1>5. IInv'
  <2>1. WholeOK(kind, size)' /\ TreeOK(kind, size, tasks, joins)' /\ returned' = returned
    BY <1>1, <1>3
  <2> QED BY <1>4, <2>1 DEF IInv
<1>6. Ready' = Ready
  BY <1>1 DEF Ready
<1> QED BY <1>1, <1>5, <1>6 DEF Contract!vars

\* The call returns.
LEMMA ReturnFacts ==
  ASSUME IInv, Return
  PROVE  IInv' /\ Contract!Return
<1>1. /\ returned' = TRUE /\ UNCHANGED <<kind, size, tasks, joins, worked, cancelled>>
      /\ joins[Waiter].refs = 0
  BY DEF Return
<1>2. tasks = {}
  BY <1>1, NoneLeft DEF IInv
<1>3. Ready = {} /\ Ready' = Ready
  BY <1>1, <1>2 DEF Ready
<1>4. Contract!Return
  BY <1>1, <1>3 DEF Contract!Return
<1> QED BY <1>1, <1>4 DEF IInv

-----------------------------------------------------------------------------
\* At first there is one task, and the caller waits for it.
LEMMA InitFacts ==
  ASSUME Init
  PROVE  IInv /\ Contract!Init
<1> DEFINE r == Contract!Whole
           t == Rec(r, Waiter, "spawned", InitialDivisor, InitDepth, << >>)
           z == [parent |-> Waiter, refs |-> 1, stolen |-> FALSE]
<1>1. /\ tasks = {t} /\ joins = [id \in {Waiter} |-> z]
      /\ worked = {} /\ cancelled = FALSE /\ returned = FALSE
  BY Zenon DEF Init, Spawned, Rec
<1>2. PICK w \in Wholes : kind = w.kind /\ size = w.size
  BY DEF Init
<1>3. WholeOK(kind, size)
  BY <1>2, PartitionerAssumption DEF WholeOK
<1>4. r = [lo |-> 0, hi |-> size] /\ r.lo = 0 /\ r.hi = size /\ RangeOK(kind, size, r) /\ r \in CellRanges
  BY <1>3 DEF WholeOK, Contract!Whole, RangeOK, CellRanges, End
<1>5. InitialDivisor \in Nat \ {0} /\ InitDepth \in 0 .. Depths - 1 /\ InitDepth # 0
  <2>1. Threads \in Nat \ {0} /\ Chunks \in Nat \ {0}
    BY PartitionerAssumption
  <2>2. (4 * Threads) \div 4 = Threads
    BY <2>1
  <2>3. Threads * Chunks \in Nat \ {0}
    BY <2>1
  <2>4. InitialDivisor = Threads * Chunks
    BY <2>2, Zenon DEF InitialDivisor
  <2>5. InitDepth \in 0 .. Depths - 1 /\ InitDepth # 0
    BY PartitionerAssumption
  <2> QED BY <2>3, <2>4, <2>5
<1>6. t \in TaskRecords
  <2>1. /\ "spawned" \in Pcs /\ << >> \in Seq(Pieces)
        /\ Waiter \in Ids /\ InitialDivisor \in Nat
    BY <1>5 DEF Ids, Pcs
  <2> HIDE DEF r
  <2> QED BY <1>4, <1>5, <2>1, RecIsTask, Zenon
<1>7. /\ t.range = r /\ t.parent = Waiter /\ t.pc = "spawned" /\ t.divisor = InitialDivisor
      /\ t.depth = InitDepth
  BY RecFacts
<1> HIDE DEF t, r
<1>8. TaskOK(kind, size, t)
  BY <1>4, <1>5, <1>6, <1>7 DEF TaskOK, RootOK, Begun
<1>9. TasksOK(kind, size, tasks)
  BY <1>1, <1>8, FS_Singleton DEF TasksOK
<1>10. /\ DOMAIN joins = {Waiter} /\ joins[Waiter] = z /\ Inner(joins) = {}
       /\ joins = [x \in DOMAIN joins |-> joins[x]]
  BY <1>1 DEF Inner
<1>11. JoinsOK(kind, size, joins)
  <2>1. z \in JoinRecords /\ Waiter \in Ids
    BY DEF JoinRecords, Ids
  <2> HIDE DEF z
  <2> QED BY <1>10, <2>1, FS_Singleton DEF JoinsOK
<1>12. PlacesOK(kind, tasks, joins)
  BY <1>1, <1>7, <1>10 DEF PlacesOK
<1>13. CountsOK(tasks, joins)
  <2>1. TasksOf(tasks, Waiter) = {t} /\ JoinsOf(joins, Waiter) = {}
    BY <1>1, <1>7, <1>10 DEF TasksOf, JoinsOf
  <2>2. Cardinality({t}) = 1 /\ Cardinality({}) = 0
    BY FS_Singleton, FS_EmptySet
  <2>3. joins[Waiter].refs = 1
    BY <1>10
  <2> QED BY <1>10, <2>1, <2>2, <2>3 DEF CountsOK
<1>14. IInv
  BY <1>1, <1>3, <1>9, <1>11, <1>12, <1>13 DEF IInv, TreeOK
<1>15. Ready = {r}
  <2>1. RangesOf(t) = {r}
    BY <1>7 DEF RangesOf, Begun
  <2> QED BY <1>1, <2>1 DEF Ready
<1>16. Contract!Init
  BY <1>1, <1>2, <1>15 DEF Contract!Init, r
<1> QED BY <1>14, <1>16

\* Every step, and what it is to the contract.
LEMMA NextFacts ==
  ASSUME IInv, [Next]_vars
  PROVE  IInv' /\ [Contract!Next]_(Contract!vars)
<1>1. CASE TaskStep
  BY <1>1, TaskStepFacts
<1>2. CASE Join
  BY <1>2, JoinFacts
<1>3. CASE Return
  BY <1>3, ReturnFacts DEF Contract!Next
<1>4. CASE UNCHANGED vars
  <2>1. /\ kind' = kind /\ size' = size /\ tasks' = tasks /\ joins' = joins
        /\ worked' = worked /\ cancelled' = cancelled /\ returned' = returned
    BY <1>4 DEF vars
  <2>2. IInv'
    BY <2>1 DEF IInv
  <2>3. Ready' = Ready
    BY <2>1 DEF Ready
  <2> QED BY <2>1, <2>2, <2>3 DEF Contract!vars
<1> QED BY <1>1, <1>2, <1>3, <1>4 DEF Next, Done

\* Tasks have no places in common, every join has those of all below it, and its count
\* is the number of its children, whatever is stolen, offered or cancelled.
THEOREM TreeOfJoins == Spec => []IInv
<1>1. Init => IInv
  BY InitFacts
<1>2. IInv /\ [Next]_vars => IInv'
  BY NextFacts
<1> QED BY <1>1, <1>2, PTL DEF Spec

\* "correctness of the cast relies on avoiding the root task" (partitioner.h:419): no
\* task whose parent is the one that waits ever looks at the flag of its parent.
THEOREM CastNeedsNoCheck == Spec => []CastIsSound
<1>1. IInv => CastIsSound
  <2> SUFFICES ASSUME IInv, NEW t \in tasks, (t.pc = "spawned" /\ t.divisor = 0) \/ InPool(t)
               PROVE  t.parent # Waiter
    BY DEF CastIsSound
  <2>1. TaskOK(kind, size, t)
    BY TaskIsThere
  <2>2. CASE t.pc = "spawned" /\ t.divisor = 0
    BY <2>1, <2>2 DEF TaskOK, RootOK
  <2>3. CASE InPool(t)
    <3>1. t.pc = "fill" \/ (t.pc = "loop" /\ t.pool # << >>)
      BY <2>3 DEF InPool
    <3> QED BY <2>1, <3>1, NoPoolAtTheRoot
  <2> QED BY <2>2, <2>3
<1> QED BY <1>1, TreeOfJoins, PTL

\* parallel_for implements what ParallelSort takes it to be: every range is divided or
\* worked on once, one that is nobody's is lost only when the group is cancelled, and
\* the call does not return before all is done.
THEOREM ParallelForIsRight == Spec => ImplementsRanges
<1>1. Init => Contract!Init
  BY InitFacts
<1>2. IInv /\ [Next]_vars => [Contract!Next]_(Contract!vars)
  BY NextFacts
<1> QED BY <1>1, <1>2, TreeOfJoins, PTL DEF Spec, ImplementsRanges, Contract!Spec
=============================================================================
