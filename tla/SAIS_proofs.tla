------------------------------- MODULE SAIS_proofs -------------------------------
(***************************************************************************)
(* Theorems about SAIS, for all corpora: it returns the suffix array, and  *)
(* its buckets, names and levels are what that needs.                      *)
(*                                                                         *)
(* First IInv, of the types and ranges. The types make_STypes computes     *)
(* compare every suffix with its right neighbour, at every level and in    *)
(* every stack element (STypesCorrect): the fact that both directions of   *)
(* the induction and the choice of the LMS positions rest on.              *)
(*                                                                         *)
(* STypesCorrect is not inductive. That a level keeps it needs the summary *)
(* a level descends to to be a vector of the size the level claims, not    *)
(* empty and not larger than the level below, which needs the naming and   *)
(* collecting loops, which need the cells the two passes leave behind.     *)
(*                                                                         *)
(* Then JInv, of the order: what a pass has sorted so far, what the names  *)
(* stand for, and that each level of the stack waits for what comes back.  *)
(* The lemmas on one level are those of SuffixOrder_proofs.               *)
(***************************************************************************)
EXTENDS SAIS, SuffixOrder_proofs, FiniteSetTheorems, SequenceTheorems

Cells == 0 .. n \cup {Invalid}

\* A level, or a stack element that keeps one, has vectors of its size and right types.
LevelOK(m, c, st) ==
  /\ m \in Nat /\ 1 <= m /\ m < Invalid
  /\ c \in [0 .. m - 1 -> Nat]
  /\ st \in [0 .. m -> BOOLEAN]

StackElements ==
  [n : Nat, cont : UNION {[0 .. m - 1 -> Nat] : m \in Nat}, sub : Int,
   stypes : UNION {[0 .. m -> BOOLEAN] : m \in Nat},
   idc : UNION {[0 .. m - 1 -> Nat] : m \in Nat},
   counts : UNION {[0 .. m - 1 -> Nat] : m \in Int}]

StackOK ==
  /\ stack \in Seq(StackElements)
  /\ \A r \in 1 .. Len(stack) : LevelOK(stack[r].n, stack[r].cont, stack[r].stypes)

\* Which phases run in which direction, and the loop variables.
ControlOK ==
  /\ pc \in {"classify", "guess", "name", "collect"} => dir = "down"
  /\ pc \in {"place", "unwind"} => dir = "up"
  /\ pc = "classify" => k \in 0 .. n - 2 \cup {Invalid}
  /\ pc = "guess" => k \in Nat /\ 1 <= k
  /\ pc = "induceL" => k \in 0 .. n + 1
  /\ pc = "induceS" => k \in Cells
  /\ pc = "name" => k \in 1 .. n + 1
  /\ pc = "collect" => k \in 0 .. n + 1

AlphabetOK ==
  /\ sub \in Int /\ alphS \in Int
  /\ pc # "classify" => counts \in UNION {[0 .. m - 1 -> Nat] : m \in Int}

\* On the way down the cells hold suffixes, and cell 0 one once the seeding is over.
CellsOK ==
  dir = "down" =>
    /\ pc \in {"guess", "induceL", "induceS", "name", "collect"} => sa \in [0 .. n -> Cells]
    /\ pc \in {"induceL", "induceS", "name", "collect"} => sa[0] \in 0 .. n

\* The sentinel has a name, and position 0 or position n has none.
NamingOK ==
  pc \in {"name", "collect"} =>
    /\ lms \in [0 .. n -> Cells]
    /\ lms[sa[0]] # Invalid
    /\ lms[0] = Invalid \/ lms[n] = Invalid
    /\ name \in 0 .. n /\ (pc = "name" => name < k)

\* The summary so far: a vector of names, shorter than the part of lms scanned if
\* position 0 has no name, with an entry once the sentinel has been passed.
CollectOK ==
  pc = "collect" =>
    /\ summS \in 0 .. k
    /\ summary \in [0 .. summS - 1 -> Nat]
    /\ idc \in [0 .. summS - 1 -> Nat]
    /\ k > sa[0] => summS >= 1
    /\ k > 0 /\ lms[0] = Invalid => summS < k
    /\ k > n /\ lms[n] = Invalid => summS < k

IInv ==
  /\ LevelOK(n, cont, stypes) /\ StackOK /\ ControlOK /\ AlphabetOK
  /\ CellsOK /\ NamingOK /\ CollectOK /\ STypesCorrect
-----------------------------------------------------------------------------
\* A step of Classify extends the right types by one position to the left.
LEMMA OneMoreType ==
  ASSUME NEW m \in Nat, NEW c \in [0 .. m - 1 -> Nat], NEW st \in [0 .. m -> BOOLEAN],
         NEW i \in 0 .. m - 2, TypesRight(c, m, st, i + 1), NEW b \in BOOLEAN,
         b <=> ~ \/ c[i] > c[i + 1]
                 \/ c[i] = c[i + 1] /\ ~ st[i + 1]
  PROVE  TypesRight(c, m, [st EXCEPT ![i] = b], i)
<1> DEFINE nst == [st EXCEPT ![i] = b]
<1>1. c[i] \in Nat /\ c[i + 1] \in Nat /\ i \in 0 .. m /\ i + 1 \in i + 1 .. m - 1
  OBVIOUS
<1>2. st[i + 1] <=> SuffixLess(c, m, i + 1, i + 2)
  <2>1. st[i + 1] <=> SuffixLess(c, m, i + 1, i + 1 + 1)
    BY <1>1 DEF TypesRight
  <2> QED BY <2>1
<1>3. b <=> c[i] < c[i + 1] \/ (c[i] = c[i + 1] /\ st[i + 1])
  BY <1>1
<1>4. nst[i] <=> SuffixLess(c, m, i, i + 1)
  <2>1. nst[i] = b
    BY <1>1
  <2>2. c[i] < c[i + 1] \/ (c[i] = c[i + 1] /\ SuffixLess(c, m, i + 1, i + 2))
          <=> SuffixLess(c, m, i, i + 1)
    BY NeighbourOrder
  <2> QED BY <1>2, <1>3, <2>1, <2>2
<1>5. nst[m] = st[m] /\ \A j \in i + 1 .. m - 1 : nst[j] = st[j]
  OBVIOUS
<1>6. nst[m]
  BY <1>5 DEF TypesRight
<1>7. ASSUME NEW j \in i .. m - 1 PROVE nst[j] <=> SuffixLess(c, m, j, j + 1)
  <2>1. CASE j = i
    BY <1>4, <2>1
  <2>2. CASE j # i
    <3>1. j \in i + 1 .. m - 1
      BY <2>2
    <3> QED BY <1>5, <3>1 DEF TypesRight
  <2> QED BY <2>1, <2>2
<1> HIDE DEF nst
<1>8. TypesRight(c, m, nst, i)
  BY <1>6, <1>7 DEF TypesRight
<1> QED BY <1>8 DEF nst

\* A level that begins has right types from its last symbol on.
LEMMA FreshTypesRight ==
  ASSUME NEW m \in Nat, 1 <= m, NEW c
  PROVE  /\ FreshTypes(m) \in [0 .. m -> BOOLEAN]
         /\ TypesRight(c, m, FreshTypes(m), m - 1)
<1>1. ~ FreshTypes(m)[m - 1] /\ FreshTypes(m)[m]
  <2>1. m - 1 \in 0 .. m /\ m \in 0 .. m /\ m - 1 # m
    OBVIOUS
  <2> QED BY <2>1, Zenon DEF FreshTypes
<1>2. \A i \in m - 1 .. m - 1 : i = m - 1 /\ i + 1 = m
  OBVIOUS
<1> QED BY <1>1, <1>2, LastIsL DEF FreshTypes, TypesRight

\* What make_counts returns.
LEMMA CountsType ==
  ASSUME IInv
  PROVE  [c \in 0 .. alphS - sub - 1 |-> Cardinality({i \in 0 .. n - 1 : Bucket(i) = c})]
           \in UNION {[0 .. m - 1 -> Nat] : m \in Int}
<1>1. n \in Nat /\ alphS - sub \in Int
  BY DEF IInv, LevelOK, AlphabetOK
<1>2. IsFiniteSet(0 .. n - 1)
  BY <1>1, FS_Interval
<1>3. \A c : Cardinality({i \in 0 .. n - 1 : Bucket(i) = c}) \in Nat
  <2> TAKE c
  <2>1. IsFiniteSet({i \in 0 .. n - 1 : Bucket(i) = c})
    BY <1>2, FS_Subset
  <2> QED BY <2>1, FS_CardinalityType
<1>4. [c \in 0 .. alphS - sub - 1 |-> Cardinality({i \in 0 .. n - 1 : Bucket(i) = c})]
        \in [0 .. (alphS - sub) - 1 -> Nat]
  BY <1>3
<1> QED BY <1>1, <1>4

\* push_back of an element of S.
LEMMA PushType ==
  ASSUME NEW S, NEW m \in Nat, NEW v \in [0 .. m - 1 -> S], NEW x \in S
  PROVE  Push(v, m, x) \in [0 .. (m + 1) - 1 -> S]
BY DEF Push
-----------------------------------------------------------------------------
\* operator() begins with the corpus as level and an empty stack.
LEMMA InitIInv == Init => IInv
<1> SUFFICES ASSUME Init PROVE IInv
  OBVIOUS
<1> USE InvalidAssumption
<1>1. /\ n \in 2 .. Invalid - 1
      /\ cont \in [0 .. n - 1 -> Nat]
      /\ sub \in Int /\ alphS \in Int
  BY CorporaAssumption DEF Init
<1>2. stypes \in [0 .. n -> BOOLEAN] /\ TypesRight(cont, n, stypes, n - 1)
  BY <1>1, FreshTypesRight DEF Init
<1>3. k = n - 2 /\ k # Invalid /\ k + 1 = n - 1
  BY <1>1 DEF Init, Pred
<1>4. LevelOK(n, cont, stypes)
  BY <1>1, <1>2 DEF LevelOK
<1>5. StackOK
  BY DEF Init, StackOK
<1>6. ControlOK /\ AlphabetOK /\ CellsOK /\ NamingOK /\ CollectOK
  BY <1>1, <1>3 DEF Init, ControlOK, AlphabetOK, CellsOK, NamingOK, CollectOK
<1>7. STypesCorrect
  BY <1>2, <1>3 DEF Init, STypesCorrect
<1> QED BY <1>4, <1>5, <1>6, <1>7 DEF IInv
-----------------------------------------------------------------------------
\* A step that leaves the level, the stack and the alphabet alone keeps what the
\* invariant says of them, once the types are complete.
LEMMA LevelFrame ==
  ASSUME IInv, UNCHANGED <<level, stack, alphS>>, pc' # "classify",
         pc = "classify" => k = Invalid
  PROVE  /\ LevelOK(n, cont, stypes)' /\ StackOK' /\ STypesCorrect'
         /\ sub' \in Int /\ alphS' \in Int
<1>1. n' = n /\ cont' = cont /\ sub' = sub /\ stypes' = stypes /\ stack' = stack
  BY DEF level
<1>2. LevelOK(n, cont, stypes)' /\ StackOK'
  BY <1>1 DEF IInv, LevelOK, StackOK
<1>3. STypesCorrect'
  BY <1>1 DEF IInv, STypesCorrect
<1> QED BY <1>1, <1>2, <1>3 DEF IInv, AlphabetOK

\* make_STypes types one suffix.
LEMMA ClassifyIInv == IInv /\ Classify => IInv'
<1> SUFFICES ASSUME IInv, Classify PROVE IInv'
  OBVIOUS
<1> USE InvalidAssumption
<1>1. /\ pc = "classify" /\ pc' = "classify" /\ dir = "down" /\ dir' = "down"
      /\ k \in 0 .. n - 2 /\ k' = Pred(k)
      /\ n' = n /\ cont' = cont /\ sub' = sub /\ alphS' = alphS /\ stack' = stack
      /\ n \in Nat /\ n < Invalid
  BY DEF IInv, ControlOK, LevelOK, Classify, level, result
<1> DEFINE b == ~ \/ cont[k] > cont[k + 1]
                  \/ cont[k] = cont[k + 1] /\ ~ stypes[k + 1]
<1>2. stypes' = [stypes EXCEPT ![k] = b] /\ b \in BOOLEAN
  BY DEF Classify
<1>3. TypesRight(cont, n, stypes, k + 1)
  BY <1>1 DEF IInv, STypesCorrect, Classify
<1>4. TypesRight(cont, n, stypes', k)
  <2> HIDE DEF b
  <2>1. b <=> ~ \/ cont[k] > cont[k + 1]
                \/ cont[k] = cont[k + 1] /\ ~ stypes[k + 1]
    BY DEF b
  <2> QED BY <1>1, <1>2, <1>3, <2>1, OneMoreType DEF IInv, LevelOK
<1>5. LevelOK(n, cont, stypes)'
  BY <1>1, <1>2 DEF IInv, LevelOK
<1>6. STypesCorrect'
  <2>1. k = IF pc' = "classify" /\ k' # Invalid THEN k' + 1 ELSE 0
    BY <1>1 DEF Pred
  <2>2. TypesRight(cont', n', stypes',
                   IF pc' = "classify" /\ k' # Invalid THEN k' + 1 ELSE 0)
    BY <1>1, <1>4, <2>1
  <2> QED BY <1>1, <2>2 DEF IInv, STypesCorrect
<1>7. StackOK' /\ AlphabetOK'
  BY <1>1 DEF IInv, StackOK, AlphabetOK
<1>8. ControlOK' /\ CellsOK' /\ NamingOK' /\ CollectOK'
  BY <1>1 DEF Pred, ControlOK, CellsOK, NamingOK, CollectOK
<1> QED BY <1>5, <1>6, <1>7, <1>8 DEF IInv

\* The symbols are counted and the buckets laid out.
LEMMA BucketsIInv == IInv /\ (Count \/ MakeBuckets \/ BeginSeed) => IInv'
<1> SUFFICES ASSUME IInv, Count \/ MakeBuckets \/ BeginSeed PROVE IInv'
  OBVIOUS
<1> USE InvalidAssumption
<1>1. /\ UNCHANGED <<level, stack, alphS>> /\ pc' # "classify"
      /\ pc = "classify" => k = Invalid
      /\ n' = n /\ dir' = dir /\ n \in Nat
  BY DEF IInv, LevelOK, Count, MakeBuckets, BeginSeed, result, level
<1>2. counts' \in UNION {[0 .. m - 1 -> Nat] : m \in Int}
  <2>1. CASE Count
    BY <2>1, CountsType DEF Count
  <2>2. CASE MakeBuckets \/ BeginSeed
    BY <2>2 DEF IInv, AlphabetOK, MakeBuckets, BeginSeed, buckets
  <2> QED BY <2>1, <2>2
<1>3. AlphabetOK'
  BY <1>1, <1>2, LevelFrame DEF AlphabetOK
<1>4. ControlOK' /\ CellsOK'
  BY <1>1 DEF IInv, ControlOK, CellsOK, Cells, Count, MakeBuckets, BeginSeed
<1>5. NamingOK' /\ CollectOK'
  BY DEF NamingOK, CollectOK, Count, MakeBuckets, BeginSeed
<1> QED BY <1>1, <1>3, <1>4, <1>5, LevelFrame DEF IInv

\* Writing a suffix to a cell, wherever the bucket points.
LEMMA PutKeepsCells ==
  ASSUME IInv, NEW j \in 0 .. n, PutAtHead(j) \/ PutAtTail(j), n' = n
  PROVE  /\ sa \in [0 .. n -> Cells] => sa' \in [0 .. n' -> Cells']
         /\ sa \in [0 .. n -> Cells] /\ sa[0] \in 0 .. n => sa'[0] \in 0 .. n'
<1>1. PICK x : sa' = [sa EXCEPT ![x] = j]
  BY DEF PutAtHead, PutAtTail
<1>2. n \in Nat
  BY DEF IInv, LevelOK
<1>3. Cells' = Cells /\ j \in Cells /\ 0 \in 0 .. n
  BY <1>2 DEF Cells
<1>4. sa \in [0 .. n -> Cells] => sa' \in [0 .. n -> Cells]
  BY <1>1, <1>3
<1>5. sa \in [0 .. n -> Cells] => sa'[0] = sa[0] \/ sa'[0] = j
  BY <1>1, <1>3
<1> QED BY <1>3, <1>4, <1>5

\* guessSortLMS and LMSSort place one suffix.
LEMMA SeedIInv == IInv /\ (Guess \/ Place \/ EndSeed) => IInv'
<1> SUFFICES ASSUME IInv, Guess \/ Place \/ EndSeed PROVE IInv'
  OBVIOUS
<1> USE InvalidAssumption
<1>1. /\ UNCHANGED <<level, stack, alphS>> /\ pc' # "classify" /\ pc # "classify"
      /\ n' = n /\ dir' = dir /\ n \in Nat /\ counts' = counts
  BY DEF IInv, LevelOK, Guess, Place, EndSeed, result, level, buckets
<1>2. AlphabetOK'
  BY <1>1, LevelFrame DEF IInv, AlphabetOK
<1>3. ControlOK'
  BY <1>1 DEF IInv, ControlOK, Guess, Place, EndSeed
<1>4. CellsOK'
  <2>1. CASE Guess
    <3>1. sa' = sa \/ (k \in 0 .. n /\ PutAtTail(k))
      <4>1. k \in 0 .. n
        BY <1>1, <2>1 DEF IInv, ControlOK, Guess
      <4> QED BY <2>1, <4>1 DEF Guess
    <3>2. sa \in [0 .. n -> Cells] => sa' \in [0 .. n' -> Cells']
      BY <1>1, <3>1, PutKeepsCells DEF Cells
    <3> QED BY <1>1, <2>1, <3>2 DEF IInv, ControlOK, CellsOK, Guess
  <2>2. CASE Place
    BY <2>2 DEF IInv, ControlOK, CellsOK, Place
  <2>3. CASE EndSeed
    BY <1>1, <2>3 DEF IInv, ControlOK, CellsOK, Cells, EndSeed
  <2> QED BY <2>1, <2>2, <2>3
<1>5. NamingOK' /\ CollectOK'
  BY DEF NamingOK, CollectOK, Guess, Place, EndSeed
<1> QED BY <1>1, <1>2, <1>3, <1>4, <1>5, LevelFrame DEF IInv

\* LInduceSort and SInduceSort place one suffix.
LEMMA InduceIInv == IInv /\ (InduceL \/ BeginInduceS \/ InduceS) => IInv'
<1> SUFFICES ASSUME IInv, InduceL \/ BeginInduceS \/ InduceS PROVE IInv'
  OBVIOUS
<1> USE InvalidAssumption
<1>1. /\ UNCHANGED <<level, stack, alphS>> /\ pc' # "classify" /\ pc # "classify"
      /\ n' = n /\ dir' = dir /\ n \in Nat /\ n < Invalid /\ counts' = counts
  BY DEF IInv, LevelOK, InduceL, BeginInduceS, InduceS, result, level, buckets
<1>2. AlphabetOK'
  BY <1>1, LevelFrame DEF IInv, AlphabetOK
<1>3. ControlOK'
  BY <1>1 DEF IInv, ControlOK, Cells, Pred, InduceL, BeginInduceS, InduceS
<1>4. CellsOK'
  <2> SUFFICES ASSUME dir = "down"
               PROVE  sa' \in [0 .. n' -> Cells'] /\ sa'[0] \in 0 .. n'
    BY <1>1 DEF CellsOK
  <2>1. sa \in [0 .. n -> Cells] /\ sa[0] \in 0 .. n
    BY DEF IInv, CellsOK, InduceL, BeginInduceS, InduceS
  <2>2. \/ sa' = sa
        \/ PutAtHead(Pred(sa[k])) /\ Pred(sa[k]) \in 0 .. n
        \/ PutAtTail(Pred(sa[k])) /\ Pred(sa[k]) \in 0 .. n
    <3>1. InduceL \/ InduceS => k \in 0 .. n
      BY <1>1 DEF IInv, ControlOK, Cells, InduceL, InduceS
    <3>2. k \in 0 .. n => sa[k] \in Cells
      BY <2>1
    <3>3. sa[k] \in Cells /\ sa[k] # Invalid /\ Pred(sa[k]) # Invalid => Pred(sa[k]) \in 0 .. n
      BY <1>1 DEF Cells, Pred
    <3> QED BY <3>1, <3>2, <3>3 DEF InduceL, BeginInduceS, InduceS
  <2> QED BY <1>1, <2>1, <2>2, PutKeepsCells DEF Cells
<1>5. NamingOK' /\ CollectOK'
  BY DEF NamingOK, CollectOK, InduceL, BeginInduceS, InduceS
<1> QED BY <1>1, <1>2, <1>3, <1>4, <1>5, LevelFrame DEF IInv

\* summarizeSA names one LMS suffix.
LEMMA NamingIInv == IInv /\ (BeginNaming \/ Name \/ BeginCollect) => IInv'
<1> SUFFICES ASSUME IInv, BeginNaming \/ Name \/ BeginCollect PROVE IInv'
  OBVIOUS
<1> USE InvalidAssumption
<1>1. /\ UNCHANGED <<level, stack, alphS>> /\ pc' \in {"name", "collect"} /\ pc # "classify"
      /\ n' = n /\ dir' = "down" /\ dir = "down" /\ sa' = sa /\ counts' = counts
      /\ n \in Nat /\ 1 <= n /\ n < Invalid
  BY DEF IInv, ControlOK, LevelOK, BeginNaming, Name, BeginCollect, result, level, buckets
<1>2. AlphabetOK'
  BY <1>1, LevelFrame DEF IInv, AlphabetOK
<1>3. ControlOK'
  BY <1>1 DEF IInv, ControlOK, BeginNaming, Name, BeginCollect
<1>4. sa \in [0 .. n -> Cells] /\ sa[0] \in 0 .. n
  BY <1>1 DEF IInv, CellsOK, BeginNaming, Name, BeginCollect
<1>5. CellsOK'
  BY <1>1, <1>4 DEF CellsOK, Cells
<1>6. NamingOK'
  <2>1. CASE BeginNaming
    <3>1. /\ lms' \in [0 .. n -> Cells] /\ lms'[sa[0]] # Invalid
          /\ lms'[0] = Invalid \/ lms'[n] = Invalid
      BY <1>1, <1>4, <2>1 DEF BeginNaming, Cells
    <3> QED BY <1>1, <2>1, <3>1 DEF NamingOK, BeginNaming, Cells
  <2>2. CASE Name
    <3>1. /\ k \in 1 .. n /\ name \in 0 .. n /\ name < k /\ lms \in [0 .. n -> Cells]
          /\ lms[sa[0]] # Invalid /\ (lms[0] = Invalid \/ lms[n] = Invalid)
          /\ k' = k + 1
      BY <1>1, <2>2 DEF IInv, ControlOK, NamingOK, Name
    <3>2. CASE UNCHANGED naming
      BY <1>1, <3>1, <3>2 DEF naming, NamingOK, Cells
    <3>3. CASE /\ sa[k] \in 1 .. n - 1
               /\ name' = IF SameSubstring(bef, sa[k]) THEN name ELSE name + 1
               /\ lms' = [lms EXCEPT ![sa[k]] = name']
      <4>1. name' \in 0 .. n /\ name' < k' /\ name' # Invalid
        BY <1>1, <3>1, <3>3
      <4>2. lms' \in [0 .. n -> Cells] /\ lms'[sa[0]] # Invalid
        BY <1>1, <1>4, <3>1, <3>3, <4>1 DEF Cells
      <4>3. lms'[0] = lms[0] /\ lms'[n] = lms[n]
        BY <1>1, <3>1, <3>3
      <4> QED BY <1>1, <3>1, <4>1, <4>2, <4>3 DEF NamingOK, Cells
    <3> QED BY <2>2, <3>2, <3>3 DEF Name
  <2>3. CASE BeginCollect
    BY <1>1, <2>3 DEF IInv, NamingOK, BeginCollect, naming, Cells
  <2> QED BY <2>1, <2>2, <2>3
<1>7. CollectOK'
  <2>1. CASE BeginNaming \/ Name
    BY <2>1 DEF CollectOK, BeginNaming, Name
  <2>2. CASE BeginCollect
    <3>1. << >> \in [0 .. 0 - 1 -> Nat]
      OBVIOUS
    <3> QED BY <1>1, <1>4, <2>2, <3>1 DEF CollectOK, BeginCollect
  <2> QED BY <2>1, <2>2
<1> QED BY <1>1, <1>2, <1>3, <1>5, <1>6, <1>7, LevelFrame DEF IInv

\* summarizeSA puts one name into the summary.
LEMMA CollectIInv == IInv /\ Collect => IInv'
<1> SUFFICES ASSUME IInv, Collect PROVE IInv'
  OBVIOUS
<1> USE InvalidAssumption
<1>1. /\ UNCHANGED <<level, stack, alphS>> /\ pc' = "collect" /\ pc = "collect"
      /\ n' = n /\ dir' = "down" /\ dir = "down" /\ sa' = sa /\ counts' = counts
      /\ lms' = lms /\ name' = name /\ k' = k + 1 /\ k \in 0 .. n
      /\ n \in Nat /\ 1 <= n /\ n < Invalid
  BY DEF IInv, ControlOK, LevelOK, Collect, level, buckets, naming
<1>2. AlphabetOK' /\ ControlOK'
  BY <1>1, LevelFrame DEF IInv, AlphabetOK, ControlOK
<1>3. CellsOK' /\ NamingOK'
  BY <1>1 DEF IInv, CellsOK, NamingOK, Cells
<1>4. /\ lms \in [0 .. n -> Cells] /\ lms[sa[0]] # Invalid /\ sa[0] \in 0 .. n
      /\ summS \in 0 .. k /\ summary \in [0 .. summS - 1 -> Nat]
      /\ idc \in [0 .. summS - 1 -> Nat]
      /\ k > sa[0] => summS >= 1
      /\ k > 0 /\ lms[0] = Invalid => summS < k
  BY <1>1 DEF IInv, CellsOK, NamingOK, CollectOK
<1>5. CASE lms[k] # Invalid
  <2>1. /\ summary' = Push(summary, summS, lms[k]) /\ idc' = Push(idc, summS, k)
        /\ summS' = summS + 1 /\ summS \in Nat /\ lms[k] \in Nat /\ k \in Nat
    BY <1>1, <1>4, <1>5 DEF Collect, Cells
  <2>2. /\ summary' \in [0 .. summS' - 1 -> Nat]
        /\ idc' \in [0 .. summS' - 1 -> Nat]
    BY <1>4, <2>1, PushType
  <2>3. /\ k' > 0 /\ lms[0] = Invalid => summS' < k'
        /\ k' > n /\ lms[n] = Invalid => summS' < k'
    <3>1. lms[0] = Invalid => k > 0
      BY <1>1, <1>5
    <3>2. lms[n] = Invalid => k < n
      BY <1>1, <1>5
    <3> QED BY <1>1, <1>4, <2>1, <3>1, <3>2
  <2>4. summS' \in 0 .. k' /\ summS' >= 1
    BY <1>1, <1>4, <2>1
  <2>5. CollectOK'
    BY <1>1, <2>2, <2>3, <2>4 DEF CollectOK
  <2> QED BY <1>1, <1>2, <1>3, <2>5, LevelFrame DEF IInv
<1>6. CASE lms[k] = Invalid
  <2>1. summary' = summary /\ idc' = idc /\ summS' = summS
    BY <1>6 DEF Collect
  <2>2. k # sa[0]
    BY <1>4, <1>6
  <2>3. CollectOK'
    BY <1>1, <1>4, <2>1, <2>2 DEF CollectOK
  <2> QED BY <1>1, <1>2, <1>3, <2>3, LevelFrame DEF IInv
<1> QED BY <1>5, <1>6

\* What the level pushes is a stack element, and its level is right.
LEMMA PushLevel ==
  ASSUME IInv, pc = "collect", stack' = Append(stack, StackElement)
  PROVE  /\ StackOK'
         /\ \A r \in 1 .. Len(stack') :
              TypesRight(stack'[r].cont, stack'[r].n, stack'[r].stypes, 0)
<1> DEFINE top == StackElement
<1>1. /\ top.n = n /\ top.cont = cont /\ top.stypes = stypes
  BY DEF StackElement
<1>2. top \in StackElements
  <2>1. /\ n \in Nat /\ cont \in [0 .. n - 1 -> Nat] /\ stypes \in [0 .. n -> BOOLEAN]
        /\ sub \in Int
    BY DEF IInv, LevelOK, AlphabetOK
  <2>2. summS \in Nat /\ idc \in [0 .. summS - 1 -> Nat]
    BY DEF IInv, CollectOK, ControlOK
  <2>3. counts \in UNION {[0 .. m - 1 -> Nat] : m \in Int}
    BY DEF IInv, AlphabetOK
  <2>4. /\ cont \in UNION {[0 .. m - 1 -> Nat] : m \in Nat}
        /\ stypes \in UNION {[0 .. m -> BOOLEAN] : m \in Nat}
        /\ idc \in UNION {[0 .. m - 1 -> Nat] : m \in Nat}
    BY <2>1, <2>2
  <2> QED BY <2>1, <2>3, <2>4 DEF StackElement, StackElements
<1>3. LevelOK(top.n, top.cont, top.stypes) /\ TypesRight(top.cont, top.n, top.stypes, 0)
  BY <1>1 DEF IInv, STypesCorrect
<1>4. /\ stack' \in Seq(StackElements)
      /\ \A r \in 1 .. Len(stack') :
           stack'[r] = top \/ (r \in 1 .. Len(stack) /\ stack'[r] = stack[r])
  <2> HIDE DEF top
  <2>1. stack \in Seq(StackElements) /\ stack' = Append(stack, top)
    BY DEF IInv, StackOK, top
  <2> QED BY <1>2, <2>1
<1> QED BY <1>3, <1>4 DEF IInv, StackOK, STypesCorrect

\* The level goes onto the stack and the summary takes its place.
LEMMA DescendIInv == IInv /\ (Descend \/ Invert) => IInv'
<1> SUFFICES ASSUME IInv, Descend \/ Invert PROVE IInv'
  OBVIOUS
<1> USE InvalidAssumption
<1>1. /\ pc = "collect" /\ dir = "down" /\ k = n + 1
      /\ n \in Nat /\ 1 <= n /\ n < Invalid
      /\ summS \in 1 .. n /\ summary \in [0 .. summS - 1 -> Nat]
      /\ name \in 0 .. n /\ alphS' = name + 1 /\ counts' = counts
      /\ stack' = Append(stack, StackElement)
  <2>1. /\ pc = "collect" /\ dir = "down" /\ k = n + 1
        /\ n \in Nat /\ 1 <= n /\ n < Invalid
        /\ alphS' = name + 1 /\ counts' = counts
        /\ stack' = Append(stack, StackElement)
    BY DEF IInv, ControlOK, LevelOK, Descend, Invert, buckets
  <2>2. /\ lms[0] = Invalid \/ lms[n] = Invalid
        /\ name \in 0 .. n /\ sa[0] \in 0 .. n
    BY <2>1 DEF IInv, CellsOK, NamingOK
  <2>3. /\ summS \in 0 .. k /\ summary \in [0 .. summS - 1 -> Nat]
        /\ k > sa[0] => summS >= 1
        /\ k > 0 /\ lms[0] = Invalid => summS < k
        /\ k > n /\ lms[n] = Invalid => summS < k
    BY <2>1 DEF IInv, CollectOK
  <2>4. summS \in 1 .. n
    BY <2>1, <2>2, <2>3
  <2> QED BY <2>1, <2>2, <2>3, <2>4
<1>2. /\ StackOK'
      /\ \A r \in 1 .. Len(stack') :
           TypesRight(stack'[r].cont, stack'[r].n, stack'[r].stypes, 0)
  BY <1>1, PushLevel
<1>3. sub' \in Int /\ AlphabetOK'
  <2>1. sub' \in Int
    BY DEF IInv, AlphabetOK, Descend, Invert, level
  <2>2. counts' \in UNION {[0 .. m - 1 -> Nat] : m \in Int}
    BY <1>1 DEF IInv, AlphabetOK
  <2>3. alphS' \in Int
    BY <1>1
  <2> QED BY <2>1, <2>2, <2>3 DEF AlphabetOK
<1>4. CASE Descend
  <2>1. /\ pc' = "classify" /\ dir' = "down" /\ k' = Pred(n' - 1)
        /\ n' = summS /\ cont' = summary /\ stypes' = FreshTypes(n')
    BY <1>1, <1>4 DEF Descend
  <2>2. stypes' \in [0 .. n' -> BOOLEAN] /\ TypesRight(cont', n', stypes', n' - 1)
    <3>1. n' \in Nat /\ 1 <= n'
      BY <1>1, <2>1
    <3>2. /\ FreshTypes(n') \in [0 .. n' -> BOOLEAN]
          /\ TypesRight(cont', n', FreshTypes(n'), n' - 1)
      BY <3>1, FreshTypesRight
    <3> QED BY <2>1, <3>2
  <2>3. LevelOK(n, cont, stypes)'
    BY <1>1, <2>1, <2>2 DEF LevelOK
  <2>4. STypesCorrect'
    <3>1. n' - 1 = IF pc' = "classify" /\ k' # Invalid THEN k' + 1 ELSE 0
      BY <1>1, <2>1 DEF Pred
    <3>2. TypesRight(cont', n', stypes',
                     IF pc' = "classify" /\ k' # Invalid THEN k' + 1 ELSE 0)
      BY <2>2, <3>1
    <3> QED BY <1>2, <3>2 DEF STypesCorrect
  <2>5. CellsOK' /\ NamingOK' /\ CollectOK'
    BY <2>1 DEF CellsOK, NamingOK, CollectOK
  <2>6. ControlOK'
    BY <1>1, <2>1 DEF Pred, ControlOK
  <2> QED BY <1>2, <1>3, <2>3, <2>4, <2>5, <2>6 DEF IInv
<1>5. CASE Invert
  <2>1. /\ pc' = "unwind" /\ dir' = "up"
        /\ n' = n /\ cont' = cont /\ stypes' = stypes
    BY <1>5 DEF Invert, level
  <2>2. LevelOK(n, cont, stypes)'
    BY <2>1 DEF IInv, LevelOK
  <2>3. STypesCorrect'
    BY <1>1, <1>2, <2>1 DEF IInv, STypesCorrect
  <2>4. ControlOK' /\ CellsOK' /\ NamingOK' /\ CollectOK'
    BY <2>1 DEF ControlOK, CellsOK, NamingOK, CollectOK
  <2> QED BY <1>2, <1>3, <2>2, <2>3, <2>4 DEF IInv
<1> QED BY <1>4, <1>5

\* pop_back.
LEMMA DropLast ==
  ASSUME NEW S, NEW s \in Seq(S), s # << >>
  PROVE  /\ SubSeq(s, 1, Len(s) - 1) \in Seq(S)
         /\ Len(SubSeq(s, 1, Len(s) - 1)) = Len(s) - 1
         /\ \A r \in 1 .. Len(s) - 1 : SubSeq(s, 1, Len(s) - 1)[r] = s[r]
<1> DEFINE m == Len(s) - 1
<1>1. m \in Nat /\ \A r \in 1 .. m : s[r] \in S
  OBVIOUS
<1>2. 1 \in Int /\ m \in Int
  BY <1>1
<1> HIDE DEF m
<1>3. /\ SubSeq(s, 1, m) \in Seq(S)
      /\ Len(SubSeq(s, 1, m)) = IF 1 <= m THEN m - 1 + 1 ELSE 0
      /\ \A r \in 1 .. m - 1 + 1 : SubSeq(s, 1, m)[r] = s[1 + r - 1]
  BY <1>1, <1>2, SubSeqProperties
<1>4. \A r \in 1 .. m : SubSeq(s, 1, m)[r] = s[r]
  BY <1>1, <1>3
<1>5. Len(SubSeq(s, 1, m)) = m
  BY <1>1, <1>3
<1> QED BY <1>3, <1>4, <1>5 DEF m

\* A level comes back from the stack.
LEMMA UnwindIInv == IInv /\ Unwind => IInv'
<1> SUFFICES ASSUME IInv, Unwind PROVE IInv'
  OBVIOUS
<1> DEFINE top == stack[Len(stack)]
<1>1. /\ pc' = "buckets" /\ pc = "unwind" /\ dir' = "up" /\ alphS' = alphS
      /\ n' = top.n /\ cont' = top.cont /\ sub' = top.sub
      /\ stypes' = top.stypes /\ counts' = top.counts
      /\ stack # << >> /\ stack' = SubSeq(stack, 1, Len(stack) - 1)
  BY DEF IInv, ControlOK, Unwind
<1>2. /\ stack \in Seq(StackElements) /\ Len(stack) \in 1 .. Len(stack)
      /\ stack' \in Seq(StackElements)
      /\ Len(stack') = Len(stack) - 1
      /\ \A r \in 1 .. Len(stack') : stack'[r] = stack[r] /\ r \in 1 .. Len(stack)
  <2>1. stack \in Seq(StackElements) /\ stack # << >>
    BY <1>1 DEF IInv, StackOK
  <2>2. Len(stack) \in Nat /\ Len(stack) # 0
    BY <2>1
  <2>3. /\ stack' \in Seq(StackElements) /\ Len(stack') = Len(stack) - 1
        /\ \A r \in 1 .. Len(stack) - 1 : stack'[r] = stack[r]
    BY <1>1, <2>1, DropLast
  <2> QED BY <2>1, <2>2, <2>3
<1>3. top \in StackElements
  BY <1>2
<1>4. LevelOK(top.n, top.cont, top.stypes) /\ TypesRight(top.cont, top.n, top.stypes, 0)
  BY <1>2 DEF IInv, StackOK, STypesCorrect
<1>5. LevelOK(n, cont, stypes)'
  BY <1>1, <1>4 DEF LevelOK
<1>6. StackOK'
  BY <1>2 DEF IInv, StackOK
<1>7. AlphabetOK'
  BY <1>1, <1>3 DEF IInv, AlphabetOK, StackElements
<1>8. STypesCorrect'
  BY <1>1, <1>2, <1>4 DEF IInv, STypesCorrect
<1>9. ControlOK' /\ CellsOK' /\ NamingOK' /\ CollectOK'
  BY <1>1 DEF ControlOK, CellsOK, NamingOK, CollectOK
<1> QED BY <1>5, <1>6, <1>7, <1>8, <1>9 DEF IInv

\* operator() returns.
LEMMA ReturnIInv == IInv /\ Return => IInv'
<1> SUFFICES ASSUME IInv, Return PROVE IInv'
  OBVIOUS
<1>1. /\ UNCHANGED <<level, stack, alphS>> /\ pc' \in {"unwind", "done"} /\ pc = "induceS"
      /\ dir' = "up" /\ counts' = counts
  BY DEF Return, level, buckets
<1>2. AlphabetOK'
  BY <1>1, LevelFrame DEF IInv, AlphabetOK
<1>3. ControlOK' /\ CellsOK' /\ NamingOK' /\ CollectOK'
  BY <1>1 DEF ControlOK, CellsOK, NamingOK, CollectOK
<1> QED BY <1>1, <1>2, <1>3, LevelFrame DEF IInv

\* A step that changes nothing.
LEMMA StutterIInv == IInv /\ UNCHANGED vars => IInv'
<1> SUFFICES ASSUME IInv, UNCHANGED vars PROVE IInv'
  OBVIOUS
<1>1. /\ pc' = pc /\ dir' = dir /\ stack' = stack /\ n' = n /\ cont' = cont /\ sub' = sub
      /\ stypes' = stypes /\ counts' = counts /\ sa' = sa /\ k' = k /\ lms' = lms
      /\ name' = name /\ idc' = idc /\ summary' = summary /\ summS' = summS
      /\ alphS' = alphS
  BY DEF vars, level, buckets, naming, result
<1>2. LevelOK(n, cont, stypes)'
  BY <1>1 DEF IInv, LevelOK
<1>3. STypesCorrect'
  BY <1>1 DEF IInv, STypesCorrect
<1>4. StackOK' /\ ControlOK' /\ AlphabetOK'
  BY <1>1 DEF IInv, StackOK, ControlOK, AlphabetOK, Cells
<1>5. CellsOK'
  BY <1>1 DEF IInv, CellsOK, Cells
<1>6. NamingOK' /\ CollectOK'
  BY <1>1 DEF IInv, NamingOK, CollectOK, Cells
<1> QED BY <1>2, <1>3, <1>4, <1>5, <1>6 DEF IInv
-----------------------------------------------------------------------------
\* The strengthening holds in every reachable state.
THEOREM Inductive == Spec => []IInv
<1>1. Init => IInv
  BY InitIInv
<1>2. IInv /\ [Next]_vars => IInv'
  BY ClassifyIInv, BucketsIInv, SeedIInv, InduceIInv, NamingIInv, CollectIInv,
     DescendIInv, UnwindIInv, ReturnIInv, StutterIInv DEF Next, Done
<1> QED BY <1>1, <1>2, PTL DEF Spec

\* make_STypes (SuffixArrayInducedSorting_bu0.hpp:238-258) is right for every corpus,
\* at every level of the descent, and for every stack element until it is used.
THEOREM TypesAreRight == Spec => []STypesCorrect
<1>1. IInv => STypesCorrect
  BY DEF IInv
<1> QED BY <1>1, Inductive, PTL

-----------------------------------------------------------------------------
\* The level, as the lemmas of SuffixOrder_proofs take it.
W == [n |-> n, cont |-> cont, sub |-> sub, stypes |-> stypes,
      counts |-> counts, heads |-> heads, tails |-> tails]

\* Each level of the Stack is a text whose summary is the next level.
StackLinked ==
  /\ \A r \in 1 .. Len(stack) : TextOK(stack[r]) /\ CountsOK(stack[r])
  /\ \A r \in 1 .. Len(stack) - 1 : Summarizes(stack[r], stack[r + 1].n, stack[r + 1].cont)
  /\ pc # "unwind" /\ stack # << >> => Summarizes(stack[Len(stack)], n, cont)

\* The first level is the corpus.
IsCorpus(m, c) == m = corpus.size /\ c = corpus.data

BottomOK ==
  /\ corpus \in Corpora
  /\ IF stack = << >> THEN IsCorpus(n, cont) ELSE IsCorpus(stack[1].n, stack[1].cont)

\* summ_alph_s and subtract fit the symbols, and they are counted.
CountingOK ==
  /\ pc = "classify" => \A i \in 0 .. n - 1 : BucketOf(W, i) \in 0 .. alphS - sub - 1
  /\ pc = "buckets" \/ pc \in Sorting => CountsOK(W)

LayoutOK ==
  /\ pc = "buckets" =>
       /\ k \in Nat /\ k - 1 \in DOMAIN counts \cup {-1}
       /\ heads \in [0 .. k - 1 -> Int] /\ tails \in [0 .. k - 1 -> Int]
       /\ BucketsTo(W, k)
  /\ pc \in Sorting => BucketsOK(W)

\* On the way up summary sorts the LMS suffixes of the level that is next.
SummaryOK ==
  /\ pc = "unwind" =>
       /\ stack # << >> /\ summS \in Nat
       /\ LMSIndices(stack[Len(stack)], stack[Len(stack)].idc, summS - 1)
       /\ SortsLMS(stack[Len(stack)], stack[Len(stack)].idc, summS - 1, summary)
  /\ pc = "place" \/ (pc = "buckets" /\ dir # "down") =>
       /\ summS \in Nat
       /\ LMSIndices(W, idc, summS - 1)
       /\ SortsLMS(W, idc, summS - 1, summary)

SeedingOK ==
  /\ pc \in {"guess", "place", "induceL", "induceS"} => sa \in [0 .. n -> Cells]
  /\ pc = "guess" => SeedOK(W, 0, slot, sa, {j \in LMSs(W) : j < k})
  /\ pc = "place" =>
       /\ k \in 1 .. summS - 1
       /\ SeedOK(W, n, slot, sa, {idc[summary[p]] : p \in k + 1 .. summS - 1})

\* On the way down the keys end at an LMS position: at the first one for the L pass, at
\* the next one for the S pass. On the way up they have no limit.
PassesOK ==
  /\ pc = "induceL" => LPassOK(W, IF dir = "down" THEN 0 ELSE n, slot, sa, k)
  /\ pc = "induceS" =>
       SPassOK(W, IF dir = "down" THEN 1 ELSE n, slot, sa, IF k = Invalid THEN -1 ELSE k)

NamesRight ==
  /\ pc \in {"name", "collect"} =>
       KeysInOrder(W, 1, sa) /\ NamingTo(W, sa, lms, name, bef, IF pc = "name" THEN k ELSE n + 1)
  /\ pc = "collect" => CollectTo(W, lms, idc, summary, summS, k)

ResultOK == pc = "done" => stack = << >> /\ IsSuffixArray(summary, cont, n)

JInv ==
  /\ StackLinked /\ BottomOK /\ CountingOK /\ LayoutOK /\ SummaryOK /\ SeedingOK
  /\ PassesOK /\ NamesRight /\ ResultOK

\* The level is a text, once its types are complete.
LEMMA LevelIsText ==
  ASSUME IInv, pc = "classify" => k = Invalid
  PROVE  TextOK(W)
<1>1. /\ LevelOK(n, cont, stypes) /\ TypesRight(cont, n, stypes, 0)
  BY DEF IInv, STypesCorrect
<1>2. W.n = n /\ W.cont = cont /\ W.stypes = stypes
  BY DEF W
<1> QED BY <1>1, <1>2 DEF LevelOK, TypesRight, TextOK

\* The helpers of the specification are those of the lemmas.
LEMMA SameHelpers ==
  ASSUME IInv, pc = "classify" => k = Invalid
  PROVE  /\ \A j : BucketOf(W, j) = Bucket(j)
         /\ \A i : LMS(W, i) <=> IsLMS(i)
         /\ \A i : SubEnd(W, i) = NextLMS(i)
         /\ \A i, j : SameSub(W, i, j) <=> SameSubstring(i, j)
         /\ \A i, j : Less(W, i, j) <=> SuffixLess(cont, n, i, j)
<1>1. W.n = n /\ W.cont = cont /\ W.stypes = stypes /\ W.sub = sub
  BY DEF W
<1>2. \A j : BucketOf(W, j) = Bucket(j)
  BY <1>1 DEF BucketOf, Bucket
<1>3. \A i : LMS(W, i) <=> IsLMS(i)
  BY <1>1 DEF LMS, IsLMS
<1>4. \A i : SubEnd(W, i) = NextLMS(i)
  <2> TAKE i
  <2>1. \A d : LMS(W, d) = IsLMS(d)
    BY <1>1 DEF LMS, IsLMS
  <2> QED BY <1>1, <2>1 DEF SubEnd, NextLMS
<1>5. \A i, j : SameSub(W, i, j) <=> SameSubstring(i, j)
  BY <1>1, <1>4 DEF SameSub, SameSubstring
<1>6. \A i, j : Less(W, i, j) <=> SuffixLess(cont, n, i, j)
  BY <1>1 DEF Less
<1> QED BY <1>2, <1>3, <1>4, <1>5, <1>6

\* A step of a phase leaves the level, the buckets and the Stack as they are.
LEMMA SortingFrame ==
  ASSUME IInv, JInv, UNCHANGED <<corpus, level, buckets, stack>>,
         pc \in Sorting \cup {"buckets"}, pc' \in Sorting, pc = "buckets" => BucketsOK(W)
  PROVE  /\ W' = W /\ SlotsOK(W)
         /\ StackLinked' /\ BottomOK' /\ CountingOK' /\ LayoutOK' /\ ResultOK'
<1>1. /\ n' = n /\ cont' = cont /\ sub' = sub /\ stypes' = stypes /\ counts' = counts
      /\ heads' = heads /\ tails' = tails /\ stack' = stack /\ corpus' = corpus
  BY DEF level, buckets
<1>2. W' = W
  BY <1>1 DEF W
<1>3. /\ pc # "classify" /\ pc' # "classify" /\ pc # "unwind" /\ pc' # "unwind"
      /\ pc' # "buckets" /\ pc' # "done"
  BY DEF Sorting
<1>4. TextOK(W) /\ CountsOK(W) /\ BucketsOK(W)
  <2>1. TextOK(W)
    BY <1>3, LevelIsText
  <2>2. CountsOK(W)
    BY DEF JInv, CountingOK
  <2>3. BucketsOK(W)
    BY DEF JInv, LayoutOK
  <2> QED BY <2>1, <2>2, <2>3
<1> HIDE DEF W, TextOK, CountsOK, BucketsOK, Summarizes
<1>5. StackLinked'
  BY <1>1, <1>3 DEF JInv, StackLinked
<1>6. BottomOK'
  BY <1>1 DEF JInv, BottomOK, IsCorpus
<1>7. CountingOK' /\ LayoutOK' /\ ResultOK'
  BY <1>2, <1>3, <1>4 DEF CountingOK, LayoutOK, ResultOK
<1> QED BY <1>2, <1>4, <1>5, <1>6, <1>7 DEF SlotsOK, TextAndCounts

\* operator() begins with the corpus.
LEMMA InitJInv == Init => JInv
<1> SUFFICES ASSUME Init PROVE JInv
  OBVIOUS
<1>1. /\ pc = "classify" /\ stack = << >> /\ corpus \in Corpora
      /\ n = corpus.size /\ cont = corpus.data /\ sub = corpus.min /\ alphS = corpus.max + 1
  BY DEF Init
<1>2. StackLinked /\ BottomOK
  BY <1>1 DEF StackLinked, BottomOK, IsCorpus
<1>3. CountingOK
  <2> SUFFICES ASSUME NEW i \in 0 .. n - 1 PROVE BucketOf(W, i) \in 0 .. alphS - sub - 1
    BY <1>1 DEF CountingOK, Sorting
  <2>1. /\ corpus.min \in Nat /\ corpus.max \in Nat
        /\ corpus.data \in [0 .. corpus.size - 1 -> corpus.min .. corpus.max]
    BY <1>1, CorporaAssumption
  <2>2. cont[i] \in corpus.min .. corpus.max
    BY <1>1, <2>1
  <2>3. BucketOf(W, i) = cont[i] - sub
    BY DEF W, BucketOf
  <2> QED BY <1>1, <2>1, <2>2, <2>3
<1>4. LayoutOK /\ SummaryOK /\ SeedingOK /\ PassesOK /\ NamesRight /\ ResultOK
  BY <1>1 DEF LayoutOK, SummaryOK, SeedingOK, PassesOK, NamesRight, ResultOK, Sorting
<1> QED BY <1>2, <1>3, <1>4 DEF JInv

\* make_STypes types one suffix.
LEMMA ClassifyJInv == IInv /\ JInv /\ Classify => JInv'
<1> SUFFICES ASSUME IInv, JInv, Classify PROVE JInv'
  OBVIOUS
<1>1. /\ pc = "classify" /\ pc' = "classify" /\ stack' = stack /\ corpus' = corpus
      /\ n' = n /\ cont' = cont /\ sub' = sub /\ alphS' = alphS
  BY DEF Classify, result
<1>2. \A i : BucketOf(W', i) = BucketOf(W, i)
  BY <1>1 DEF W, BucketOf
<1> HIDE DEF BucketOf
<1>3. StackLinked' /\ BottomOK'
  BY <1>1 DEF JInv, StackLinked, BottomOK, IsCorpus
<1>4. CountingOK'
  BY <1>1, <1>2 DEF JInv, CountingOK, Sorting
<1>5. (LayoutOK /\ SummaryOK /\ SeedingOK /\ PassesOK /\ NamesRight /\ ResultOK)'
  BY <1>1 DEF LayoutOK, SummaryOK, SeedingOK, PassesOK, NamesRight, ResultOK, Sorting
<1> QED BY <1>3, <1>4, <1>5 DEF JInv

\* make_counts counts the symbols.
LEMMA CountJInv == IInv /\ JInv /\ Count => JInv'
<1> SUFFICES ASSUME IInv, JInv, Count PROVE JInv'
  OBVIOUS
<1>1. /\ pc = "classify" /\ k = Invalid /\ pc' = "buckets" /\ k' = 0 /\ stack' = stack
      /\ corpus' = corpus /\ dir' = dir
      /\ n' = n /\ cont' = cont /\ sub' = sub /\ stypes' = stypes
      /\ heads' = << >> /\ tails' = << >>
      /\ counts' = [c \in 0 .. alphS - sub - 1 |-> Cardinality({i \in 0 .. n - 1 : Bucket(i) = c})]
  BY DEF Count, level
<1>2. dir = "down" /\ sub \in Int /\ alphS \in Int
  BY <1>1 DEF IInv, ControlOK, AlphabetOK
<1>3. TextOK(W')
  <2>1. TextOK(W) /\ W'.n = W.n /\ W'.cont = W.cont /\ W'.stypes = W.stypes
    BY <1>1, LevelIsText DEF W
  <2> QED BY <2>1, SameTexts
<1>4. CountsOK(W')
  <2>1. PICK u : u = W'
    OBVIOUS
  <2>2. PICK m \in Int : m = alphS - sub
    BY <1>2
  <2>3. u.n = n /\ u.cont = cont /\ u.sub = sub /\ u.counts = counts'
    BY <1>1, <2>1 DEF W
  <2>4. \A i : BucketOf(u, i) = Bucket(i) /\ BucketOf(u, i) = BucketOf(W, i)
    BY <2>3 DEF BucketOf, Bucket, W
  <2> HIDE DEF W, BucketOf, Bucket
  <2>5. u.counts = [c \in 0 .. m - 1 |-> Cardinality({i \in 0 .. u.n - 1 : BucketOf(u, i) = c})]
    BY <1>1, <2>2, <2>3, <2>4
  <2>6. \A i \in 0 .. u.n - 1 : BucketOf(u, i) \in 0 .. m - 1
    BY <1>1, <2>2, <2>3, <2>4 DEF JInv, CountingOK
  <2>7. TextOK(u) /\ u.sub \in Int
    BY <1>2, <1>3, <2>1, <2>3
  <2>8. CountsOK(u)
    BY <2>5, <2>6, <2>7, CountsAre
  <2> QED BY <2>1, <2>8
<1> HIDE DEF W, CountsOK, TextOK, Summarizes
<1>5. StackLinked' /\ BottomOK'
  BY <1>1 DEF JInv, StackLinked, BottomOK, IsCorpus
<1>6. CountingOK'
  BY <1>1, <1>4 DEF CountingOK
<1>7. LayoutOK'
  <2>1. << >> \in [0 .. 0 - 1 -> Int]
    OBVIOUS
  <2>2. BucketsTo(W', 0)
    BY DEF BucketsTo
  <2> QED BY <1>1, <2>1, <2>2 DEF LayoutOK, Sorting
<1>8. (SummaryOK /\ SeedingOK /\ PassesOK /\ NamesRight /\ ResultOK)'
  BY <1>1, <1>2 DEF SummaryOK, SeedingOK, PassesOK, NamesRight, ResultOK, Sorting
<1> QED BY <1>5, <1>6, <1>7, <1>8 DEF JInv

\* make_buckets lays out one bucket.
LEMMA MakeBucketsJInv == IInv /\ JInv /\ MakeBuckets => JInv'
<1> SUFFICES ASSUME IInv, JInv, MakeBuckets PROVE JInv'
  OBVIOUS
<1> DEFINE sum == IF k = 0 THEN 0 ELSE tails[k - 1]
<1>1. /\ pc = "buckets" /\ pc' = "buckets" /\ k \in DOMAIN counts /\ k' = k + 1 /\ stack' = stack
      /\ corpus' = corpus /\ dir' = dir /\ counts' = counts
      /\ n' = n /\ cont' = cont /\ sub' = sub /\ stypes' = stypes
      /\ idc' = idc /\ summary' = summary /\ summS' = summS
      /\ heads' = Push(heads, k, sum + 1) /\ tails' = Push(tails, k, sum + counts[k])
  BY DEF MakeBuckets, level, result
<1>2. TextOK(W) /\ CountsOK(W) /\ TextAndCounts(W)
  BY <1>1, LevelIsText DEF JInv, CountingOK, TextAndCounts
<1>3. PICK w : w = W
  OBVIOUS
<1>4. PICK u : u = W'
  OBVIOUS
<1>5. /\ w.n = n /\ w.cont = cont /\ w.stypes = stypes /\ w.sub = sub /\ w.counts = counts
      /\ w.heads = heads /\ w.tails = tails
  BY <1>3 DEF W
<1>6. /\ u.n = n /\ u.cont = cont /\ u.stypes = stypes /\ u.sub = sub /\ u.counts = counts
      /\ u.heads = heads' /\ u.tails = tails'
  BY <1>1, <1>4 DEF W
<1> HIDE DEF W, TextOK, CountsOK, TextAndCounts, Summarizes, BucketsTo
<1>7. CountsOK(u)
  <2>1. /\ u.n = w.n /\ u.cont = w.cont /\ u.sub = w.sub /\ u.counts = w.counts
        /\ CountsOK(w)
    BY <1>2, <1>3, <1>5, <1>6
  <2> QED BY <2>1, SameCounts
<1>8. StackLinked' /\ BottomOK'
  BY <1>1 DEF JInv, StackLinked, BottomOK, IsCorpus
<1>9. CountingOK'
  BY <1>1, <1>4, <1>7 DEF CountingOK
<1>10. LayoutOK'
  <2>1. /\ k \in Nat /\ heads \in [0 .. k - 1 -> Int] /\ tails \in [0 .. k - 1 -> Int]
        /\ BucketsTo(w, k)
    BY <1>1, <1>3 DEF JInv, LayoutOK
  <2>2. /\ BucketsTo(u, k + 1)
        /\ w.heads \in [0 .. k - 1 -> Int] => u.heads \in [0 .. k -> Int]
        /\ w.tails \in [0 .. k - 1 -> Int] => u.tails \in [0 .. k -> Int]
    <3>1. PICK t : t = sum
      OBVIOUS
    <3>2. t = IF k = 0 THEN 0 ELSE w.tails[k - 1]
      BY <1>5, <3>1
    <3> HIDE DEF sum
    <3>3. /\ u.n = w.n /\ u.cont = w.cont /\ u.sub = w.sub
          /\ u.heads = [r \in 0 .. k |-> IF r = k THEN t + 1 ELSE w.heads[r]]
          /\ u.tails = [r \in 0 .. k |-> IF r = k THEN t + w.counts[k] ELSE w.tails[r]]
          /\ k \in DOMAIN w.counts /\ TextAndCounts(w) /\ BucketsTo(w, k)
      BY <1>1, <1>2, <1>3, <1>5, <1>6, <2>1, <3>1 DEF Push
    <3> QED BY ONLY <3>2, <3>3, MoreBuckets
  <2>3. k' - 1 = k /\ k' \in Nat
    BY <1>1, <2>1
  <2>4. heads' \in [0 .. k' - 1 -> Int] /\ tails' \in [0 .. k' - 1 -> Int]
    BY <1>5, <1>6, <2>1, <2>2, <2>3
  <2>5. k' - 1 \in DOMAIN counts' \cup {-1}
    BY <1>1, <2>3
  <2>6. BucketsTo(W', k')
    BY <1>1, <1>4, <2>2
  <2> QED BY <1>1, <2>3, <2>4, <2>5, <2>6 DEF LayoutOK, Sorting
<1>11. SummaryOK'
  <2> SUFFICES ASSUME dir # "down"
               PROVE  summS \in Nat /\ LMSIndices(u, idc, summS - 1) /\ SortsLMS(u, idc, summS - 1, summary)
    BY <1>1, <1>4 DEF SummaryOK
  <2>1. summS \in Nat /\ LMSIndices(w, idc, summS - 1) /\ SortsLMS(w, idc, summS - 1, summary)
    BY <1>1, <1>3 DEF JInv, SummaryOK
  <2>2. u.n = w.n /\ u.cont = w.cont /\ u.stypes = w.stypes /\ TextOK(w)
    BY <1>2, <1>3, <1>5, <1>6
  <2> HIDE DEF LMSIndices, SortsLMS
  <2> QED BY <2>1, <2>2, SameSummary
<1>12. (SeedingOK /\ PassesOK /\ NamesRight /\ ResultOK)'
  BY <1>1 DEF SeedingOK, PassesOK, NamesRight, ResultOK, Sorting
<1> QED BY <1>8, <1>9, <1>10, <1>11, <1>12 DEF JInv

\* The seeding begins with the buckets laid out.
LEMMA BeginSeedJInv == IInv /\ JInv /\ BeginSeed => JInv'
<1> SUFFICES ASSUME IInv, JInv, BeginSeed PROVE JInv'
  OBVIOUS
<1> USE InvalidAssumption
<1>1. /\ pc = "buckets" /\ k \notin DOMAIN counts
      /\ UNCHANGED <<corpus, level, buckets, stack>> /\ dir' = dir /\ n' = n
      /\ slot' = tails /\ sa' = [p \in 0 .. n |-> Invalid]
      /\ idc' = idc /\ summary' = summary /\ summS' = summS
      /\ \/ dir = "down" /\ pc' = "guess" /\ k' = 1
         \/ dir # "down" /\ pc' = "place" /\ k' = summS - 1
  BY DEF BeginSeed, result, level
<1>2. n \in Nat /\ n < Invalid /\ Invalid \notin 0 .. n
  BY DEF IInv, LevelOK
<1>3. PICK w : w = W
  OBVIOUS
<1>4. w.n = n /\ w.tails = tails /\ w.heads = heads /\ w.counts = counts
  BY <1>3 DEF W
<1> HIDE DEF W
<1>5. SlotsOK(w)
  <2>1. TextAndCounts(w)
    BY <1>1, <1>3, LevelIsText DEF JInv, CountingOK, TextAndCounts
  <2>2. /\ k \in Nat /\ BucketsTo(w, k)
        /\ k \notin DOMAIN w.counts /\ k - 1 \in DOMAIN w.counts \cup {-1}
        /\ w.heads \in [0 .. k - 1 -> Int] /\ w.tails \in [0 .. k - 1 -> Int]
    BY <1>1, <1>3, <1>4 DEF JInv, LayoutOK
  <2> QED BY <2>1, <2>2, AllBuckets
<1>6. /\ W' = w
      /\ StackLinked' /\ BottomOK' /\ CountingOK' /\ LayoutOK' /\ ResultOK'
  <2>1. BucketsOK(W) /\ pc \in Sorting \cup {"buckets"} /\ pc' \in Sorting
    BY <1>1, <1>3, <1>5 DEF SlotsOK, Sorting
  <2> QED BY <1>1, <1>3, <2>1, SortingFrame
<1>7. \A from : SeedOK(w, from, slot', sa', {})
  <2>1. Invalid \in Int /\ Invalid \notin 0 .. w.n /\ sa' = [p \in 0 .. w.n |-> Invalid]
    BY <1>1, <1>2, <1>4
  <2> QED BY <1>1, <1>4, <1>5, <2>1, BeginSeeding
<1> HIDE DEF SeedOK, LMSIndices, SortsLMS
<1>8. dir # "down" =>
        summS \in Nat /\ LMSIndices(w, idc, summS - 1) /\ SortsLMS(w, idc, summS - 1, summary)
  BY <1>1, <1>3 DEF JInv, SummaryOK
<1>9. SummaryOK'
  BY <1>1, <1>6, <1>8 DEF SummaryOK
<1>10. SeedingOK'
  <2>1. sa' \in [0 .. n' -> Cells']
    BY <1>1 DEF Cells
  <2>2. pc' = "guess" => SeedOK(W', 0, slot', sa', {j \in LMSs(W') : j < k'})
    <3>1. ASSUME pc' = "guess" PROVE {j \in LMSs(w) : j < k'} = {}
      <4>1. \A j \in LMSs(w) : j \in 1 .. w.n - 1
        BY DEF LMSs
      <4> HIDE DEF LMSs
      <4>2. k' = 1
        BY <1>1, <3>1
      <4> QED BY <4>1, <4>2
    <3> QED BY <1>6, <1>7, <3>1
  <2>3. pc' = "place" =>
          /\ k' \in 1 .. summS' - 1
          /\ SeedOK(W', n', slot', sa', {idc'[summary'[p]] : p \in k' + 1 .. summS' - 1})
    <3> SUFFICES ASSUME pc' = "place"
                 PROVE  /\ k' \in 1 .. summS' - 1
                        /\ SeedOK(W', n', slot', sa', {idc'[summary'[p]] : p \in k' + 1 .. summS' - 1})
      OBVIOUS
    <3>1. k' = summS - 1 /\ summS' = summS /\ dir # "down"
      BY <1>1
    <3>2. summS - 1 \in Nat \ {0}
      BY <1>8, <3>1 DEF LMSIndices
    <3>3. k' \in 1 .. summS' - 1 /\ k' + 1 .. summS' - 1 = {}
      BY <1>8, <3>1, <3>2
    <3> QED BY <1>6, <1>7, <3>3
  <2> QED BY <1>1, <2>1, <2>2, <2>3 DEF SeedingOK
<1>11. (PassesOK /\ NamesRight)'
  BY <1>1 DEF PassesOK, NamesRight
<1> QED BY <1>6, <1>9, <1>10, <1>11 DEF JInv

\* A step writes one cell at most, in which there is no suffix.
FillsACell ==
  sa' = sa \/ \E P \in 1 .. n, j \in 0 .. n : sa[P] \notin 0 .. n /\ sa' = [sa EXCEPT ![P] = j]

\* guessSortLMS puts a suffix into a free cell.
LEMMA GuessWrites ==
  ASSUME IInv, JInv, Guess
  PROVE  JInv' /\ FillsACell
<1> USE InvalidAssumption
<1>1. /\ pc = "guess" /\ pc' = "guess" /\ k < n /\ k' = k + 1 /\ dir' = dir
      /\ UNCHANGED <<corpus, level, buckets, stack>> /\ n' = n
  BY DEF Guess, level
<1>2. n \in Nat /\ k \in Nat /\ 1 <= k /\ dir = "down"
  BY <1>1 DEF IInv, LevelOK, ControlOK
<1>3. PICK w : w = W
  OBVIOUS
<1>4. /\ w.n = n /\ \A i : BucketOf(w, i) = Bucket(i)
      /\ \A i : LMS(w, i) <=> IsLMS(i)
  <2>1. w.n = n
    BY <1>3 DEF W
  <2> QED BY <1>1, <1>3, <2>1, SameHelpers
<1> HIDE DEF W, LMS, IsLMS, BucketOf, Bucket
<1>5. /\ W' = w /\ SlotsOK(w)
      /\ StackLinked' /\ BottomOK' /\ CountingOK' /\ LayoutOK' /\ ResultOK'
  <2>1. pc \in Sorting \cup {"buckets"} /\ pc' \in Sorting /\ pc # "buckets"
    BY <1>1 DEF Sorting
  <2> QED BY <1>1, <1>3, <2>1, SortingFrame
<1>6. sa \in [0 .. n -> Cells] /\ SeedOK(w, 0, slot, sa, {j \in LMSs(w) : j < k})
  BY <1>1, <1>3 DEF JInv, SeedingOK
<1>7. /\ sa' \in [0 .. n -> Cells]
      /\ SeedOK(w, 0, slot', sa', {j \in LMSs(w) : j < k + 1})
      /\ FillsACell
  <2>1. CASE IsLMS(k)
    <3>1. k \in 1 .. w.n - 1 /\ LMS(w, k) /\ k \in 0 .. n
      BY <1>1, <1>2, <1>4, <2>1
    <3>2. PICK b : b = BucketOf(w, k)
      OBVIOUS
    <3>3. PICK P : P = slot[b]
      OBVIOUS
    <3>4. /\ sa' = [sa EXCEPT ![P] = k]
          /\ slot' = [slot EXCEPT ![b] = @ - 1]
      BY <1>4, <2>1, <3>2, <3>3 DEF Guess, PutAtTail
    <3> HIDE DEF SeedOK
    <3>5. /\ P \in 1 .. w.n /\ sa[P] \notin 0 .. w.n
          /\ SeedOK(w, 0, slot', sa', {j \in LMSs(w) : j < k + 1})
      <4>1. PICK Q : Q = {j \in LMSs(w) : j < k}
        OBVIOUS
      <4>2. \A j : j \in Q <=> j \in LMSs(w) /\ j < k
        BY ONLY <4>1
      <4>3. /\ SlotsOK(w) /\ SeedOK(w, 0, slot, sa, Q)
            /\ b = BucketOf(w, k) /\ P = slot[b]
        BY <1>5, <1>6, <3>2, <3>3, <4>1
      <4>4. SeedOK(w, 0, slot', sa', Q \cup {k})
        BY ONLY <3>1, <3>4, <4>2, <4>3, GuessPut
      <4>5. sa[P] \notin 0 .. w.n
        BY ONLY <3>1, <3>4, <4>2, <4>3, GuessPut
      <4>6. P \in 1 .. w.n
        BY ONLY <3>1, <3>4, <4>2, <4>3, <4>4, <4>5, GuessPut
      <4>7. Q \cup {k} = {j \in LMSs(w) : j < k + 1}
        <5>1. k \in LMSs(w)
          BY <3>1 DEF LMSs
        <5>2. \A j \in LMSs(w) : j \in Int
          BY DEF LMSs
        <5> HIDE DEF LMSs
        <5>3. \A j \in LMSs(w) : j < k + 1 <=> j < k \/ j = k
          BY <1>2, <5>2
        <5> QED BY <4>1, <5>1, <5>3
      <4> QED BY <4>4, <4>5, <4>6, <4>7
    <3>6. sa' \in [0 .. n -> Cells]
      BY <1>6, <3>1, <3>4 DEF Cells
    <3> QED BY <1>4, <3>1, <3>4, <3>5, <3>6 DEF FillsACell
  <2>2. CASE ~ IsLMS(k)
    <3>1. sa' = sa /\ slot' = slot
      BY <2>2 DEF Guess
    <3>2. {j \in LMSs(w) : j < k + 1} = {j \in LMSs(w) : j < k}
      BY <1>2, <1>4, <2>2, GuessSkip
    <3> QED BY <1>6, <3>1, <3>2 DEF FillsACell
  <2> QED BY <2>1, <2>2
<1> HIDE DEF SeedOK
<1>8. SeedingOK'
  BY <1>1, <1>5, <1>7 DEF SeedingOK, Cells
<1>9. (SummaryOK /\ PassesOK /\ NamesRight)'
  BY <1>1 DEF SummaryOK, PassesOK, NamesRight
<1> QED BY <1>5, <1>7, <1>8, <1>9 DEF JInv

\* LMSSort puts a suffix into a free cell.
LEMMA PlaceWrites ==
  ASSUME IInv, JInv, Place
  PROVE  JInv' /\ FillsACell
<1> USE InvalidAssumption
<1>1. /\ pc = "place" /\ pc' = "place" /\ k > 1 /\ k' = k - 1 /\ dir' = dir
      /\ UNCHANGED <<corpus, level, buckets, stack>> /\ n' = n
      /\ idc' = idc /\ summary' = summary /\ summS' = summS
  BY DEF Place, level, result
<1>2. n \in Nat
  BY <1>1 DEF IInv, LevelOK
<1>3. PICK w : w = W
  OBVIOUS
<1>4. w.n = n /\ \A i : BucketOf(w, i) = Bucket(i)
  <2>1. w.n = n
    BY <1>3 DEF W
  <2> QED BY <1>1, <1>3, <2>1, SameHelpers
<1> HIDE DEF W, BucketOf, Bucket
<1>5. /\ W' = w /\ SlotsOK(w)
      /\ StackLinked' /\ BottomOK' /\ CountingOK' /\ LayoutOK' /\ ResultOK'
  <2>1. pc \in Sorting \cup {"buckets"} /\ pc' \in Sorting /\ pc # "buckets"
    BY <1>1 DEF Sorting
  <2> QED BY <1>1, <1>3, <2>1, SortingFrame
<1>6. PICK s : s = summS - 1
  OBVIOUS
<1>7. /\ LMSIndices(w, idc, s) /\ SortsLMS(w, idc, s, summary) /\ summS \in Nat
      /\ sa \in [0 .. n -> Cells] /\ k \in 1 .. s
      /\ SeedOK(w, n, slot, sa, {idc[summary[p]] : p \in k + 1 .. s})
  BY <1>1, <1>3, <1>6 DEF JInv, SeedingOK, SummaryOK
<1> HIDE DEF SeedOK, LMSIndices, SortsLMS
<1>8. PICK j : j = idc[summary[k]]
  OBVIOUS
<1>9. PICK b : b = BucketOf(w, j)
  OBVIOUS
<1>10. PICK P : P = slot[b]
  OBVIOUS
<1>11. sa' = [sa EXCEPT ![P] = j] /\ slot' = [slot EXCEPT ![b] = @ - 1]
  BY <1>4, <1>8, <1>9, <1>10 DEF Place, PutAtTail
<1>12. s \in Nat /\ k \in 2 .. s
  <2>1. s \in Nat
    BY <1>7 DEF LMSIndices
  <2> QED BY <1>1, <1>7, <2>1
<1>13. PICK Q : Q = {idc[summary[p]] : p \in k + 1 .. s}
  OBVIOUS
<1>14. /\ SlotsOK(w) /\ SeedOK(w, w.n, slot, sa, Q)
       /\ LMSIndices(w, idc, s) /\ SortsLMS(w, idc, s, summary)
  BY <1>4, <1>5, <1>7, <1>13
<1>15. /\ j \in LMSs(w)
       /\ \A p \in k + 1 .. s : idc[summary[p]] # j /\ ~ KeyLess(w, w.n, idc[summary[p]], j)
  <2>1. TextOK(w)
    BY <1>5 DEF SlotsOK, TextAndCounts
  <2> QED BY ONLY <1>8, <1>12, <1>14, <2>1, NextPlaced
<1>16. w.n \in Nat /\ j \notin Q /\ \A i \in Q : BucketOf(w, i) = BucketOf(w, j) => ~ KeyLess(w, w.n, i, j)
  BY <1>2, <1>4, <1>13, <1>15
<1>17. SeedOK(w, w.n, slot', sa', Q \cup {j})
  BY ONLY <1>9, <1>10, <1>11, <1>14, <1>15, <1>16, SeedStep
<1>18. sa[P] \notin 0 .. w.n
  BY ONLY <1>9, <1>10, <1>11, <1>14, <1>15, <1>16, SeedStep
<1>19. P \in 1 .. w.n
  BY ONLY <1>9, <1>10, <1>11, <1>14, <1>15, <1>16, <1>17, <1>18, SeedStep
<1>20. j \in 0 .. n
  BY <1>2, <1>4, <1>15 DEF LMSs
<1>21. FillsACell
  BY <1>4, <1>11, <1>18, <1>19, <1>20 DEF FillsACell
<1>22. Q \cup {j} = {idc[summary[p]] : p \in k' + 1 .. s}
  <2>1. k' + 1 .. s = (k + 1 .. s) \cup {k}
    BY <1>1, <1>12
  <2> QED BY <1>8, <1>13, <2>1
<1>23. SeedingOK'
  <2>1. sa' \in [0 .. n -> Cells]
    BY <1>7, <1>11, <1>20 DEF Cells
  <2>2. sa' \in [0 .. n' -> Cells']
    BY <1>1, <2>1 DEF Cells
  <2>3. k' \in 1 .. summS' - 1
    BY <1>1, <1>6, <1>7, <1>12
  <2>4. SeedOK(W', n', slot', sa', {idc'[summary'[p]] : p \in k' + 1 .. summS' - 1})
    BY <1>1, <1>4, <1>5, <1>6, <1>17, <1>22
  <2> QED BY <1>1, <2>2, <2>3, <2>4 DEF SeedingOK
<1>24. SummaryOK'
  BY <1>1, <1>5, <1>6, <1>7 DEF SummaryOK
<1>25. (PassesOK /\ NamesRight)'
  BY <1>1 DEF PassesOK, NamesRight
<1> QED BY <1>5, <1>21, <1>23, <1>24, <1>25 DEF JInv

\* LInduceSort begins.
LEMMA EndSeedJInv ==
  ASSUME IInv, JInv, EndSeed
  PROVE  JInv' /\ sa' = [sa EXCEPT ![0] = n] /\ sa[0] \notin 0 .. n
<1> USE InvalidAssumption
<1>1. /\ pc' = "induceL" /\ k' = 0 /\ dir' = dir
      /\ UNCHANGED <<corpus, level, buckets, stack>> /\ n' = n
      /\ sa' = [sa EXCEPT ![0] = n] /\ slot' = heads
      /\ \/ pc = "guess" /\ k >= n
         \/ pc = "place" /\ k <= 1
  BY DEF EndSeed, level
<1>2. n \in Nat
  BY <1>1 DEF IInv, LevelOK
<1>3. PICK w : w = W
  OBVIOUS
<1>4. w.n = n /\ w.heads = heads
  BY <1>3 DEF W
<1> HIDE DEF W
<1>5. /\ W' = w /\ SlotsOK(w) /\ TextOK(w)
      /\ StackLinked' /\ BottomOK' /\ CountingOK' /\ LayoutOK' /\ ResultOK'
  <2>1. pc \in Sorting \cup {"buckets"} /\ pc' \in Sorting /\ pc # "buckets" /\ pc # "classify"
    BY <1>1 DEF Sorting
  <2> QED BY <1>1, <1>3, <2>1, SortingFrame, LevelIsText
<1> DEFINE from == IF dir = "down" THEN 0 ELSE n
<1>6. SeedOK(w, from, slot, sa, LMSs(w))
  <2>1. CASE pc = "guess"
    <3>1. k >= n /\ dir = "down" /\ k \in Nat
      BY <1>1, <2>1 DEF IInv, ControlOK
    <3>2. SeedOK(w, 0, slot, sa, {j \in LMSs(w) : j < k})
      BY <1>3, <2>1 DEF JInv, SeedingOK
    <3>3. \A j \in LMSs(w) : j < k
      BY <1>2, <1>4, <3>1 DEF LMSs
    <3> HIDE DEF LMSs, SeedOK
    <3>4. {j \in LMSs(w) : j < k} = LMSs(w)
      BY <3>3
    <3> QED BY <3>1, <3>2, <3>4
  <2>2. CASE pc = "place"
    <3>1. k <= 1 /\ dir = "up" /\ k \in 1 .. summS - 1 /\ summS \in Nat
      BY <1>1, <2>2 DEF IInv, ControlOK, JInv, SeedingOK, SummaryOK
    <3>2. /\ SeedOK(w, n, slot, sa, {idc[summary[p]] : p \in k + 1 .. summS - 1})
          /\ LMSIndices(w, idc, summS - 1) /\ SortsLMS(w, idc, summS - 1, summary)
      BY <1>3, <2>2 DEF JInv, SeedingOK, SummaryOK
    <3>3. k + 1 = 2
      BY <3>1
    <3> HIDE DEF LMSs, SeedOK, LMSIndices, SortsLMS
    <3>4. PICK s : s = summS - 1
      OBVIOUS
    <3>5. LMSIndices(w, idc, s) /\ SortsLMS(w, idc, s, summary)
      BY <3>2, <3>4
    <3>6. {idc[summary[p]] : p \in 2 .. s} = LMSs(w)
      BY <1>5, <3>5, AllPlacedLMS
    <3>7. SeedOK(w, n, slot, sa, LMSs(w))
      BY <3>2, <3>3, <3>4, <3>6
    <3> QED BY <3>1, <3>7
  <2> QED BY <1>1, <2>1, <2>2
<1>7. from \in Nat
  BY <1>2
<1>8. LPassOK(w, from, slot', sa', 0)
  <2>1. sa' = [sa EXCEPT ![0] = w.n] /\ slot' = w.heads
    BY <1>1, <1>4
  <2> HIDE DEF from
  <2> QED BY <1>5, <1>6, <1>7, <2>1, BeginL
<1>9. sa[0] \notin 0 .. n
  BY <1>4, <1>6 DEF SeedOK
<1> HIDE DEF SeedOK, LPassOK
<1>10. SeedingOK'
  <2>1. sa \in [0 .. n -> Cells]
    BY <1>1 DEF JInv, SeedingOK
  <2>2. sa' \in [0 .. n' -> Cells']
    BY <1>1, <1>2, <2>1 DEF Cells
  <2> QED BY <1>1, <2>2 DEF SeedingOK
<1>11. PassesOK'
  BY <1>1, <1>5, <1>8 DEF PassesOK
<1>12. (SummaryOK /\ NamesRight)'
  BY <1>1 DEF SummaryOK, NamesRight
<1> QED BY <1>1, <1>5, <1>9, <1>10, <1>11, <1>12 DEF JInv

\* LInduceSort scans one cell, and puts at most one suffix into a free one.
LEMMA InduceLWrites ==
  ASSUME IInv, JInv, InduceL
  PROVE  JInv' /\ FillsACell
<1> USE InvalidAssumption
<1>1. /\ pc = "induceL" /\ pc' = "induceL" /\ k <= n /\ k' = k + 1 /\ dir' = dir
      /\ UNCHANGED <<corpus, level, buckets, stack>> /\ n' = n
  BY DEF InduceL, level
<1>2. n \in Nat /\ k \in 0 .. n /\ n < Invalid
  BY <1>1 DEF IInv, LevelOK, ControlOK
<1>3. PICK w : w = W
  OBVIOUS
<1>4. w.n = n /\ w.stypes = stypes /\ \A i : BucketOf(w, i) = Bucket(i)
  <2>1. w.n = n /\ w.stypes = stypes
    BY <1>3 DEF W
  <2> QED BY <1>1, <1>3, <2>1, SameHelpers
<1> HIDE DEF W, BucketOf, Bucket
<1>5. /\ W' = w /\ SlotsOK(w)
      /\ StackLinked' /\ BottomOK' /\ CountingOK' /\ LayoutOK' /\ ResultOK'
  <2>1. pc \in Sorting \cup {"buckets"} /\ pc' \in Sorting /\ pc # "buckets"
    BY <1>1 DEF Sorting
  <2> QED BY <1>1, <1>3, <2>1, SortingFrame
<1>6. PICK from \in Nat : from = IF dir = "down" THEN 0 ELSE n
  BY <1>2
<1>7. sa \in [0 .. n -> Cells] /\ LPassOK(w, from, slot, sa, k) /\ k \in 0 .. w.n
  BY <1>1, <1>2, <1>3, <1>4, <1>6 DEF JInv, SeedingOK, PassesOK
<1> HIDE DEF LPassOK
<1>8. /\ sa' \in [0 .. n -> Cells] /\ LPassOK(w, from, slot', sa', k + 1)
      /\ FillsACell
  <2>1. CASE \E j \in 0 .. n - 1 : ~ stypes[j] /\ sa[k] = j + 1
    <3>1. PICK j \in 0 .. n - 1 : ~ stypes[j] /\ sa[k] = j + 1
      BY <2>1
    <3>2. sa[k] # Invalid /\ Pred(sa[k]) = j /\ j # Invalid /\ j \in 0 .. n
      BY <1>2, <3>1 DEF Pred
    <3>3. PICK b : b = BucketOf(w, j)
      OBVIOUS
    <3>4. PICK P : P = slot[b]
      OBVIOUS
    <3>5. /\ sa' = [sa EXCEPT ![P] = j]
          /\ slot' = [slot EXCEPT ![b] = @ + 1]
      BY <1>4, <3>1, <3>2, <3>3, <3>4 DEF InduceL, PutAtHead
    <3>6. j \in 0 .. w.n - 1 /\ ~ w.stypes[j] /\ sa[k] = j + 1 /\ SlotsOK(w)
      BY <1>4, <1>5, <3>1
    <3>7. LPassOK(w, from, slot', sa', k + 1)
      BY ONLY <1>6, <1>7, <3>3, <3>4, <3>5, <3>6, LPut
    <3>8. sa[P] \notin 0 .. w.n
      BY ONLY <1>6, <1>7, <3>3, <3>4, <3>5, <3>6, LPut
    <3>9. P \in 1 .. w.n
      BY ONLY <1>6, <1>7, <3>3, <3>4, <3>5, <3>6, <3>7, <3>8, LPut
    <3>10. sa' \in [0 .. n -> Cells]
      BY <1>7, <3>2, <3>5 DEF Cells
    <3> QED BY <1>4, <3>2, <3>5, <3>7, <3>8, <3>9, <3>10 DEF FillsACell
  <2>2. CASE ~ \E j \in 0 .. n - 1 : ~ stypes[j] /\ sa[k] = j + 1
    <3>1. ~ (sa[k] # Invalid /\ Pred(sa[k]) # Invalid /\ ~ stypes[Pred(sa[k])])
      <4>1. sa[k] \in Cells
        BY <1>2, <1>7
      <4> SUFFICES ASSUME sa[k] # Invalid, Pred(sa[k]) # Invalid
                   PROVE  stypes[Pred(sa[k])]
        OBVIOUS
      <4>2. sa[k] \in 1 .. n /\ Pred(sa[k]) = sa[k] - 1
        BY <1>2, <4>1 DEF Cells, Pred
      <4>3. PICK j : j = sa[k] - 1
        OBVIOUS
      <4>4. j \in 0 .. n - 1 /\ sa[k] = j + 1
        BY <1>2, <4>2, <4>3
      <4> QED BY <2>2, <4>2, <4>3, <4>4
    <3>2. sa' = sa /\ slot' = slot
      BY <3>1 DEF InduceL
    <3>3. \A j \in 0 .. w.n - 1 : ~ w.stypes[j] => sa[k] # j + 1
      BY <1>4, <2>2
    <3>4. LPassOK(w, from, slot, sa, k + 1)
      BY <1>5, <1>6, <1>7, <3>3, LSkip
    <3> QED BY <1>7, <3>2, <3>4 DEF FillsACell
  <2> QED BY <2>1, <2>2
<1>9. SeedingOK' /\ PassesOK'
  BY <1>1, <1>4, <1>5, <1>6, <1>8 DEF SeedingOK, PassesOK, Cells
<1>10. (SummaryOK /\ NamesRight)'
  BY <1>1 DEF SummaryOK, NamesRight
<1> QED BY <1>5, <1>8, <1>9, <1>10 DEF JInv

\* SInduceSort begins.
LEMMA BeginInduceSJInv ==
  ASSUME IInv, JInv, BeginInduceS
  PROVE  JInv' /\ sa' = sa
<1> USE InvalidAssumption
<1>1. /\ pc = "induceL" /\ pc' = "induceS" /\ k > n /\ k' = n /\ dir' = dir
      /\ UNCHANGED <<corpus, level, buckets, stack>> /\ n' = n
      /\ slot' = tails /\ sa' = sa
  BY DEF BeginInduceS, level
<1>2. n \in Nat /\ k \in Int /\ n # Invalid
  BY <1>1 DEF IInv, LevelOK, ControlOK
<1>3. PICK w : w = W
  OBVIOUS
<1>4. w.n = n /\ w.tails = tails
  BY <1>3 DEF W
<1> HIDE DEF W
<1>5. /\ W' = w /\ SlotsOK(w)
      /\ StackLinked' /\ BottomOK' /\ CountingOK' /\ LayoutOK' /\ ResultOK'
  <2>1. pc \in Sorting \cup {"buckets"} /\ pc' \in Sorting /\ pc # "buckets"
    BY <1>1 DEF Sorting
  <2> QED BY <1>1, <1>3, <2>1, SortingFrame
<1>6. PICK from \in Nat : from = IF dir = "down" THEN 0 ELSE n
  BY <1>2
<1>7. PICK to : to = IF dir = "down" THEN 1 ELSE n
  OBVIOUS
<1>8. to = from \/ (from = 0 /\ to = 1)
  BY <1>6, <1>7
<1>9. LPassOK(w, from, slot, sa, k) /\ k \in Int /\ k > w.n
  BY <1>1, <1>2, <1>3, <1>4, <1>6 DEF JInv, PassesOK
<1> HIDE DEF LPassOK, SPassOK
<1>10. SPassOK(w, to, w.tails, sa, w.n)
  BY <1>5, <1>6, <1>8, <1>9, BeginS
<1>11. PassesOK'
  BY <1>1, <1>2, <1>4, <1>5, <1>7, <1>10 DEF PassesOK
<1>12. SeedingOK'
  <2>1. sa \in [0 .. n -> Cells]
    BY <1>1 DEF JInv, SeedingOK
  <2> QED BY <1>1, <2>1 DEF SeedingOK, Cells
<1>13. (SummaryOK /\ NamesRight)'
  BY <1>1 DEF SummaryOK, NamesRight
<1> QED BY <1>1, <1>5, <1>11, <1>12, <1>13 DEF JInv

\* SInduceSort scans one cell, and puts at most one suffix, where there is none or one
\* that is LMS.
LEMMA InduceSWrites ==
  ASSUME IInv, JInv, InduceS
  PROVE  /\ JInv'
         /\ \A p \in 0 .. n : sa[p] # Invalid /\ sa'[p] # sa[p] => sa[p] # 0 /\ IsLMS(sa[p])
<1> USE InvalidAssumption
<1>1. /\ pc = "induceS" /\ pc' = "induceS" /\ k # Invalid /\ k' = Pred(k) /\ dir' = dir
      /\ UNCHANGED <<corpus, level, buckets, stack>> /\ n' = n
  BY DEF InduceS, level
<1>2. n \in Nat /\ k \in 0 .. n /\ n < Invalid
  BY <1>1 DEF IInv, LevelOK, ControlOK, Cells
<1>3. PICK w : w = W
  OBVIOUS
<1>4. /\ w.n = n /\ w.stypes = stypes /\ \A i : BucketOf(w, i) = Bucket(i)
      /\ \A i : LMS(w, i) <=> IsLMS(i)
  <2>1. w.n = n /\ w.stypes = stypes
    BY <1>3 DEF W
  <2> QED BY <1>1, <1>3, <2>1, SameHelpers
<1> HIDE DEF W, BucketOf, Bucket, LMS, IsLMS
<1>5. /\ W' = w /\ SlotsOK(w)
      /\ StackLinked' /\ BottomOK' /\ CountingOK' /\ LayoutOK' /\ ResultOK'
  <2>1. pc \in Sorting \cup {"buckets"} /\ pc' \in Sorting /\ pc # "buckets"
    BY <1>1 DEF Sorting
  <2> QED BY <1>1, <1>3, <2>1, SortingFrame
<1>6. PICK from \in Nat : from = IF dir = "down" THEN 1 ELSE n
  BY <1>2
<1>7. sa \in [0 .. n -> Cells] /\ SPassOK(w, from, slot, sa, k) /\ k \in 0 .. w.n
  BY <1>1, <1>2, <1>3, <1>4, <1>6 DEF JInv, SeedingOK, PassesOK
<1> HIDE DEF SPassOK
<1>8. /\ sa' \in [0 .. n -> Cells] /\ SPassOK(w, from, slot', sa', k - 1)
      /\ \A p \in 0 .. n : sa[p] # Invalid /\ sa'[p] # sa[p] => sa[p] # 0 /\ IsLMS(sa[p])
  <2>1. CASE \E j \in 0 .. n - 1 : stypes[j] /\ sa[k] = j + 1
    <3>1. PICK j \in 0 .. n - 1 : stypes[j] /\ sa[k] = j + 1
      BY <2>1
    <3>2. sa[k] # Invalid /\ Pred(sa[k]) = j /\ j # Invalid /\ j \in 0 .. n
      BY <1>2, <3>1 DEF Pred
    <3>3. PICK b : b = BucketOf(w, j)
      OBVIOUS
    <3>4. PICK P : P = slot[b]
      OBVIOUS
    <3>5. /\ sa' = [sa EXCEPT ![P] = j]
          /\ slot' = [slot EXCEPT ![b] = @ - 1]
      BY <1>4, <3>1, <3>2, <3>3, <3>4 DEF InduceS, PutAtTail
    <3>6. j \in 0 .. w.n - 1 /\ w.stypes[j] /\ sa[k] = j + 1 /\ SlotsOK(w)
      BY <1>4, <1>5, <3>1
    <3>7. SPassOK(w, from, slot', sa', k - 1)
      BY ONLY <1>6, <1>7, <3>3, <3>4, <3>5, <3>6, SPut
    <3>8. sa[P] \in 0 .. w.n => sa[P] \in LMSs(w)
      BY ONLY <1>6, <1>7, <3>3, <3>4, <3>5, <3>6, SPut
    <3>9. sa' \in [0 .. n -> Cells]
      BY <1>7, <3>2, <3>5 DEF Cells
    <3>10. ASSUME NEW p \in 0 .. n, sa[p] # Invalid, sa'[p] # sa[p]
           PROVE  sa[p] # 0 /\ IsLMS(sa[p])
      <4>1. p = P
        BY <1>7, <3>5, <3>10
      <4>2. sa[p] \in 0 .. n
        BY <1>7, <3>10 DEF Cells
      <4>3. sa[p] \in LMSs(w)
        BY <1>4, <3>8, <4>1, <4>2
      <4> QED BY <1>4, <4>3 DEF LMSs
    <3> QED BY <3>7, <3>9, <3>10
  <2>2. CASE ~ \E j \in 0 .. n - 1 : stypes[j] /\ sa[k] = j + 1
    <3>1. ~ (sa[k] # Invalid /\ Pred(sa[k]) # Invalid /\ stypes[Pred(sa[k])])
      <4>1. sa[k] \in Cells
        BY <1>2, <1>7
      <4> SUFFICES ASSUME sa[k] # Invalid, Pred(sa[k]) # Invalid
                   PROVE  ~ stypes[Pred(sa[k])]
        OBVIOUS
      <4>2. sa[k] \in 1 .. n /\ Pred(sa[k]) = sa[k] - 1
        BY <1>2, <4>1 DEF Cells, Pred
      <4>3. PICK j : j = sa[k] - 1
        OBVIOUS
      <4>4. j \in 0 .. n - 1 /\ sa[k] = j + 1
        BY <1>2, <4>2, <4>3
      <4> QED BY <2>2, <4>2, <4>3, <4>4
    <3>2. sa' = sa /\ slot' = slot
      BY <3>1 DEF InduceS
    <3>3. \A j \in 0 .. w.n - 1 : w.stypes[j] => sa[k] # j + 1
      BY <1>4, <2>2
    <3>4. SPassOK(w, from, slot, sa, k - 1)
      BY <1>5, <1>6, <1>7, <3>3, SSkip
    <3> QED BY <1>7, <3>2, <3>4
  <2> QED BY <2>1, <2>2
<1>9. k - 1 = IF k' = Invalid THEN -1 ELSE k'
  BY <1>1, <1>2 DEF Pred
<1>10. SeedingOK' /\ PassesOK'
  BY <1>1, <1>4, <1>5, <1>6, <1>8, <1>9 DEF SeedingOK, PassesOK, Cells
<1>11. (SummaryOK /\ NamesRight)'
  BY <1>1 DEF SummaryOK, NamesRight
<1> QED BY <1>5, <1>8, <1>10, <1>11 DEF JInv

\* summarizeSA begins with the suffixes in the order of their keys.
LEMMA BeginNamingJInv == IInv /\ JInv /\ BeginNaming => JInv' /\ sa' = sa
<1> SUFFICES ASSUME IInv, JInv, BeginNaming PROVE JInv' /\ sa' = sa
  OBVIOUS
<1> USE InvalidAssumption
<1>1. /\ pc = "induceS" /\ pc' = "name" /\ k = Invalid /\ k' = 1 /\ dir = "down"
      /\ UNCHANGED <<corpus, level, buckets, stack>> /\ n' = n /\ sa' = sa
      /\ lms' = [i \in 0 .. n |-> IF i = sa[0] THEN 0 ELSE Invalid]
      /\ name' = 0 /\ bef' = sa[0]
  BY DEF BeginNaming, level
<1>2. n \in Nat /\ n < Invalid /\ Invalid \notin 0 .. n
  BY <1>1 DEF IInv, LevelOK
<1>3. PICK w : w = W
  OBVIOUS
<1>4. w.n = n
  BY <1>3 DEF W
<1> HIDE DEF W
<1>5. /\ W' = w /\ SlotsOK(w) /\ TextOK(w)
      /\ StackLinked' /\ BottomOK' /\ CountingOK' /\ LayoutOK' /\ ResultOK'
  <2>1. pc \in Sorting \cup {"buckets"} /\ pc' \in Sorting /\ pc # "buckets" /\ pc # "classify"
    BY <1>1 DEF Sorting
  <2> QED BY <1>1, <1>3, <2>1, SortingFrame, LevelIsText
<1>6. PICK from \in Nat : from = 1
  OBVIOUS
<1> HIDE DEF SPassOK, KeysInOrder, NamingTo
<1>7. KeysInOrder(w, 1, sa)
  <2>1. SPassOK(w, from, slot, sa, -1)
    BY <1>1, <1>3, <1>6 DEF JInv, PassesOK
  <2>2. KeysInOrder(w, from, sa)
    BY <1>5, <2>1, PassesSort
  <2> QED BY <1>6, <2>2
<1>8. NamingTo(w, sa, lms', 0, sa[0], 1)
  <2>1. lms' = [i \in 0 .. w.n |-> IF i = sa[0] THEN 0 ELSE Invalid] /\ Invalid \notin 0 .. w.n
    BY <1>1, <1>2, <1>4
  <2> QED BY <1>5, <1>7, <2>1, BeginNames
<1>9. NamesRight'
  BY <1>1, <1>5, <1>7, <1>8 DEF NamesRight
<1>10. (SummaryOK /\ SeedingOK /\ PassesOK)'
  BY <1>1 DEF SummaryOK, SeedingOK, PassesOK
<1> QED BY <1>1, <1>5, <1>9, <1>10 DEF JInv

\* summarizeSA names one LMS suffix.
LEMMA NameJInv == IInv /\ JInv /\ Name => JInv' /\ sa' = sa
<1> SUFFICES ASSUME IInv, JInv, Name PROVE JInv' /\ sa' = sa
  OBVIOUS
<1> USE InvalidAssumption
<1>1. /\ pc = "name" /\ pc' = "name" /\ k <= n /\ k' = k + 1
      /\ UNCHANGED <<corpus, level, buckets, stack>> /\ n' = n /\ sa' = sa
  BY DEF Name, level
<1>2. n \in Nat /\ n < Invalid /\ k \in 1 .. n /\ name \in 0 .. n /\ name < k /\ lms \in [0 .. n -> Cells]
  BY <1>1 DEF IInv, LevelOK, ControlOK, NamingOK
<1>3. PICK w : w = W
  OBVIOUS
<1>4. /\ w.n = n /\ \A i : LMS(w, i) <=> IsLMS(i)
      /\ \A i, j : SameSub(w, i, j) <=> SameSubstring(i, j)
  <2>1. w.n = n
    BY <1>3 DEF W
  <2> QED BY <1>1, <1>3, <2>1, SameHelpers
<1> HIDE DEF W, LMS, IsLMS, SameSub, SameSubstring
<1>5. /\ W' = w /\ TextOK(w)
      /\ StackLinked' /\ BottomOK' /\ CountingOK' /\ LayoutOK' /\ ResultOK'
  <2>1. pc \in Sorting \cup {"buckets"} /\ pc' \in Sorting /\ pc # "buckets" /\ pc # "classify"
    BY <1>1 DEF Sorting
  <2> QED BY <1>1, <1>3, <2>1, SortingFrame, LevelIsText
<1>6. KeysInOrder(w, 1, sa) /\ NamingTo(w, sa, lms, name, bef, k)
  BY <1>1, <1>3 DEF JInv, NamesRight
<1>7. lms \in [0 .. w.n -> Int] /\ k \in 1 .. w.n
  BY <1>2, <1>4 DEF Cells
<1> HIDE DEF KeysInOrder, NamingTo
<1>8. NamingTo(w, sa, lms', name', bef', k + 1)
  <2>1. CASE sa[k] \in 1 .. n - 1 /\ IsLMS(sa[k])
    <3>1. PICK j : j = sa[k]
      OBVIOUS
    <3>2. PICK t2 : t2 = IF SameSub(w, bef, j) THEN name ELSE name + 1
      OBVIOUS
    <3>3. name' = t2 /\ lms' = [lms EXCEPT ![j] = t2] /\ bef' = j
      BY <1>4, <2>1, <3>1, <3>2 DEF Name
    <3>4. t2 <= w.n
      BY <1>2, <1>4, <3>2
    <3>5. j \in 1 .. w.n - 1 /\ LMS(w, j)
      BY <1>4, <2>1, <3>1
    <3>6. PICK n2 : n2 = lms'
      OBVIOUS
    <3>7. n2 = [lms EXCEPT ![j] = t2]
      BY <3>3, <3>6
    <3>8. NamingTo(w, sa, n2, t2, j, k + 1)
      BY ONLY <1>5, <1>6, <1>7, <3>1, <3>2, <3>4, <3>5, <3>7, NamePut
    <3> QED BY <3>3, <3>6, <3>8
  <2>2. CASE ~ (sa[k] \in 1 .. n - 1 /\ IsLMS(sa[k]))
    <3>1. lms' = lms /\ name' = name /\ bef' = bef
      BY <2>2 DEF Name, naming
    <3>2. ~ (sa[k] \in 1 .. w.n - 1 /\ LMS(w, sa[k]))
      BY <1>4, <2>2
    <3>3. NamingTo(w, sa, lms, name, bef, k + 1)
      BY <1>5, <1>6, <1>7, <3>2, NameSkip
    <3> QED BY <3>1, <3>3
  <2> QED BY <2>1, <2>2
<1>9. NamesRight'
  BY <1>1, <1>5, <1>6, <1>8 DEF NamesRight
<1>10. (SummaryOK /\ SeedingOK /\ PassesOK)'
  BY <1>1 DEF SummaryOK, SeedingOK, PassesOK
<1> QED BY <1>1, <1>5, <1>9, <1>10 DEF JInv

\* The collecting loop begins with all LMS suffixes named.
LEMMA BeginCollectJInv == IInv /\ JInv /\ BeginCollect => JInv' /\ sa' = sa
<1> SUFFICES ASSUME IInv, JInv, BeginCollect PROVE JInv' /\ sa' = sa
  OBVIOUS
<1>1. /\ pc = "name" /\ pc' = "collect" /\ k > n /\ k' = 0
      /\ UNCHANGED <<corpus, level, buckets, stack>> /\ n' = n /\ sa' = sa
      /\ lms' = lms /\ name' = name /\ bef' = bef
      /\ idc' = << >> /\ summary' = << >> /\ summS' = 0
  BY DEF BeginCollect, level, naming
<1>2. k = n + 1
  BY <1>1 DEF IInv, LevelOK, ControlOK
<1>3. PICK w : w = W
  OBVIOUS
<1> HIDE DEF W
<1>4. /\ W' = w /\ TextOK(w)
      /\ StackLinked' /\ BottomOK' /\ CountingOK' /\ LayoutOK' /\ ResultOK'
  <2>1. pc \in Sorting \cup {"buckets"} /\ pc' \in Sorting /\ pc # "buckets" /\ pc # "classify"
    BY <1>1 DEF Sorting
  <2> QED BY <1>1, <1>3, <2>1, SortingFrame, LevelIsText
<1> HIDE DEF KeysInOrder, NamingTo, CollectTo
<1>5. KeysInOrder(w, 1, sa) /\ NamingTo(w, sa, lms, name, bef, n + 1)
  BY <1>1, <1>2, <1>3 DEF JInv, NamesRight
<1>6. CollectTo(w, lms, << >>, << >>, 0, 0)
  BY <1>4, BeginCollecting
<1>7. NamesRight'
  BY <1>1, <1>4, <1>5, <1>6 DEF NamesRight
<1>8. (SummaryOK /\ SeedingOK /\ PassesOK)'
  BY <1>1 DEF SummaryOK, SeedingOK, PassesOK
<1> QED BY <1>1, <1>4, <1>7, <1>8 DEF JInv

\* The collecting loop looks at one position.
LEMMA CollectJInv == IInv /\ JInv /\ Collect => JInv' /\ sa' = sa
<1> SUFFICES ASSUME IInv, JInv, Collect PROVE JInv' /\ sa' = sa
  OBVIOUS
<1> USE InvalidAssumption
<1>1. /\ pc = "collect" /\ pc' = "collect" /\ k <= n /\ k' = k + 1
      /\ UNCHANGED <<corpus, level, buckets, stack>> /\ n' = n /\ sa' = sa
      /\ lms' = lms /\ name' = name /\ bef' = bef
  BY DEF Collect, level, naming
<1>2. n \in Nat /\ n < Invalid /\ k \in 0 .. n /\ lms \in [0 .. n -> Cells]
  BY <1>1 DEF IInv, LevelOK, ControlOK, NamingOK
<1>3. PICK w : w = W
  OBVIOUS
<1>4. w.n = n
  BY <1>3 DEF W
<1> HIDE DEF W
<1>5. /\ W' = w /\ TextOK(w)
      /\ StackLinked' /\ BottomOK' /\ CountingOK' /\ LayoutOK' /\ ResultOK'
  <2>1. pc \in Sorting \cup {"buckets"} /\ pc' \in Sorting /\ pc # "buckets" /\ pc # "classify"
    BY <1>1 DEF Sorting
  <2> QED BY <1>1, <1>3, <2>1, SortingFrame, LevelIsText
<1>6. PICK e \in Int : e = n + 1
  BY <1>2
<1>7. /\ KeysInOrder(w, 1, sa) /\ NamingTo(w, sa, lms, name, bef, e)
      /\ CollectTo(w, lms, idc, summary, summS, k)
  BY <1>1, <1>3, <1>6 DEF JInv, NamesRight
<1>8. lms[k] # Invalid <=> k \in 1 .. n /\ LMS(w, k)
  <2>1. lms[k] # Invalid <=> lms[k] \in 0 .. w.n
    BY <1>2, <1>4 DEF Cells
  <2>2. lms[k] \in 0 .. w.n <=> k \in ScannedLMS(w, sa, e)
    BY <1>2, <1>4, <1>7 DEF NamingTo
  <2>3. k \in ScannedLMS(w, sa, e) => k \in 1 .. w.n
    BY DEF ScannedLMS
  <2>4. e > w.n
    BY <1>2, <1>4, <1>6
  <2> HIDE DEF KeysInOrder, ScannedLMS, LMS
  <2>5. k \in 1 .. w.n => (k \in ScannedLMS(w, sa, e) <=> LMS(w, k))
    BY <1>5, <1>6, <1>7, <2>4, AllScanned
  <2> QED BY <1>4, <2>1, <2>2, <2>3, <2>5
<1> HIDE DEF KeysInOrder, NamingTo, CollectTo, LMS
<1>9. CollectTo(w, lms, idc', summary', summS', k + 1)
  <2>1. CASE lms[k] # Invalid
    <3>1. k \in 1 .. w.n /\ LMS(w, k) /\ lms[k] \in Int
      BY <1>2, <1>4, <1>8, <2>1 DEF Cells
    <3>2. PICK i2 : i2 = idc'
      OBVIOUS
    <3>3. PICK v2 : v2 = summary'
      OBVIOUS
    <3>4. PICK s2 : s2 = summS'
      OBVIOUS
    <3>5. /\ i2 = [r \in 0 .. summS |-> IF r = summS THEN k ELSE idc[r]]
          /\ v2 = [r \in 0 .. summS |-> IF r = summS THEN lms[k] ELSE summary[r]]
          /\ s2 = summS + 1
      BY <2>1, <3>2, <3>3, <3>4 DEF Collect, Push
    <3>6. CollectTo(w, lms, i2, v2, s2, k + 1)
      BY ONLY <1>5, <1>7, <3>1, <3>5, CollectPut
    <3> QED BY <3>2, <3>3, <3>4, <3>6
  <2>2. CASE lms[k] = Invalid
    <3>1. idc' = idc /\ summary' = summary /\ summS' = summS
      BY <2>2 DEF Collect
    <3>2. k \in 0 .. w.n /\ (k > 0 => ~ LMS(w, k))
      BY <1>2, <1>4, <1>8, <2>2
    <3>3. CollectTo(w, lms, idc, summary, summS, k + 1)
      BY ONLY <1>5, <1>7, <3>2, CollectSkip
    <3> QED BY <3>1, <3>3
  <2> QED BY <2>1, <2>2
<1>10. NamesRight'
  BY <1>1, <1>5, <1>6, <1>7, <1>9 DEF NamesRight
<1>11. (SummaryOK /\ SeedingOK /\ PassesOK)'
  BY <1>1 DEF SummaryOK, SeedingOK, PassesOK
<1> QED BY <1>1, <1>5, <1>10, <1>11 DEF JInv

\* When the collecting loop is through, the level can become a stack element: the summary
\* is a text of names for its LMS suffixes, faithful to their order.
LEMMA CollectedLevel ==
  ASSUME IInv, JInv, pc = "collect", k > n
  PROVE  /\ TextOK(StackElement) /\ CountsOK(StackElement)
         /\ Summarizes(StackElement, summS, summary)
         /\ TextOK(W) /\ LMSIndices(W, idc, summS) /\ NamesOK(W, idc, summS, summary)
         /\ summary \in [0 .. summS - 1 -> 0 .. name] /\ name \in Nat
         /\ \A x \in 0 .. name : \E y \in 0 .. summS - 1 : summary[y] = x
<1>1. n \in Nat /\ k = n + 1
  BY DEF IInv, LevelOK, ControlOK
<1>2. TextOK(W) /\ CountsOK(W)
  BY LevelIsText DEF JInv, CountingOK, Sorting
<1>3. PICK w : w = W
  OBVIOUS
<1>4. PICK top : top = StackElement
  OBVIOUS
<1>5. /\ w.n = n /\ top.n = w.n /\ top.cont = w.cont /\ top.stypes = w.stypes
      /\ top.sub = w.sub /\ top.counts = w.counts /\ top.idc = idc
  BY <1>3, <1>4 DEF W, StackElement
<1>6. k \in Int /\ k > w.n
  BY <1>1, <1>5
<1>7. /\ KeysInOrder(w, 1, sa) /\ NamingTo(w, sa, lms, name, bef, k)
      /\ CollectTo(w, lms, idc, summary, summS, k) /\ TextOK(w) /\ CountsOK(w)
  BY <1>1, <1>2, <1>3 DEF JInv, NamesRight
<1> HIDE DEF W, StackElement, TextOK, CountsOK, LMSIndices, NamesOK, Faithful, KeysInOrder, NamingTo, CollectTo
<1>8. /\ LMSIndices(w, idc, summS) /\ NamesOK(w, idc, summS, summary) /\ 2 * summS <= w.n + 1
      /\ summary \in [0 .. summS - 1 -> 0 .. name] /\ name \in Nat
      /\ \A x \in 0 .. name : \E y \in 0 .. summS - 1 : summary[y] = x
  BY ONLY <1>6, <1>7, Collected
<1>9. Faithful(w, idc, summS, summary)
  BY <1>7, <1>8, NamesAreFaithful
<1>10. TextOK(top)
  BY <1>5, <1>7, SameTexts
<1>11. CountsOK(top)
  BY <1>5, <1>7, SameCounts
<1>12. LMSIndices(top, idc, summS) /\ Faithful(top, idc, summS, summary)
  BY <1>5, <1>7, <1>8, <1>9, SameSummary
<1>13. Summarizes(top, summS, summary)
  BY <1>5, <1>8, <1>12 DEF Summarizes
<1> QED BY <1>3, <1>4, <1>7, <1>8, <1>10, <1>11, <1>13

\* ... and stay linked to the others there.
LEMMA PushLinked ==
  ASSUME IInv, JInv, pc = "collect", k > n, corpus' = corpus,
         stack' = Append(stack, StackElement), pc' # "unwind" => n' = summS /\ cont' = summary
  PROVE  StackLinked' /\ BottomOK' /\ stack' # << >> /\ stack'[Len(stack')] = StackElement
<1>1. PICK top : top = StackElement
  OBVIOUS
<1>2. /\ top.n = n /\ top.cont = cont
  BY <1>1 DEF StackElement
<1>3. TextOK(top) /\ CountsOK(top) /\ Summarizes(top, summS, summary)
  BY <1>1, CollectedLevel
<1> HIDE DEF StackElement, TextOK, CountsOK, Summarizes
<1>4. /\ stack \in Seq(StackElements) /\ Len(stack) \in Nat
      /\ (stack # << >> <=> Len(stack) \in 1 .. Len(stack))
  BY DEF IInv, StackOK
<1>5. /\ Len(stack') = Len(stack) + 1 /\ stack'[Len(stack) + 1] = top
      /\ \A r \in 1 .. Len(stack) : stack'[r] = stack[r]
      /\ stack' # << >>
  <2>1. stack' = Append(stack, top)
    BY <1>1
  <2> QED BY <1>4, <2>1
<1>6. /\ \A r \in 1 .. Len(stack) : TextOK(stack[r]) /\ CountsOK(stack[r])
      /\ \A r \in 1 .. Len(stack) - 1 : Summarizes(stack[r], stack[r + 1].n, stack[r + 1].cont)
      /\ stack # << >> => Summarizes(stack[Len(stack)], n, cont)
  BY DEF JInv, StackLinked
<1>7. ASSUME NEW r \in 1 .. Len(stack') PROVE TextOK(stack'[r]) /\ CountsOK(stack'[r])
  <2>1. r = Len(stack) + 1 \/ r \in 1 .. Len(stack)
    BY <1>4, <1>5
  <2> QED BY <1>3, <1>5, <1>6, <2>1
<1>8. ASSUME NEW r \in 1 .. Len(stack') - 1
      PROVE  Summarizes(stack'[r], stack'[r + 1].n, stack'[r + 1].cont)
  <2>1. CASE r = Len(stack)
    <3>1. stack'[r] = stack[r] /\ stack'[r + 1] = top /\ stack # << >>
      BY <1>4, <1>5, <2>1
    <3> QED BY <1>2, <1>6, <2>1, <3>1
  <2>2. CASE r # Len(stack)
    <3>1. r \in 1 .. Len(stack) - 1 /\ r \in 1 .. Len(stack) /\ r + 1 \in 1 .. Len(stack)
      BY <1>4, <1>5, <2>2
    <3>2. stack'[r] = stack[r] /\ stack'[r + 1] = stack[r + 1]
      BY <1>5, <3>1
    <3> QED BY <1>6, <3>1, <3>2
  <2> QED BY <2>1, <2>2
<1>9. pc' # "unwind" => Summarizes(stack'[Len(stack')], n', cont')
  BY <1>3, <1>5
<1>10. StackLinked'
  BY <1>7, <1>8, <1>9 DEF StackLinked
<1>11. BottomOK'
  <2>1. CASE stack = << >>
    <3>1. stack'[1] = top /\ IsCorpus(n, cont)
      BY <1>5, <2>1 DEF JInv, BottomOK
    <3> QED BY <1>2, <1>5, <3>1 DEF JInv, BottomOK, IsCorpus
  <2>2. CASE stack # << >>
    <3>1. stack'[1] = stack[1] /\ IsCorpus(stack[1].n, stack[1].cont)
      BY <1>4, <1>5, <2>2 DEF JInv, BottomOK
    <3> QED BY <1>5, <3>1 DEF JInv, BottomOK, IsCorpus
  <2> QED BY <2>1, <2>2
<1> QED BY <1>1, <1>5, <1>10, <1>11

\* toStack of the summary: all its symbols are names.
LEMMA DescendJInv == IInv /\ JInv /\ Descend => JInv'
<1> SUFFICES ASSUME IInv, JInv, Descend PROVE JInv'
  OBVIOUS
<1>1. /\ pc = "collect" /\ k > n /\ pc' = "classify" /\ dir' = dir /\ corpus' = corpus
      /\ stack' = Append(stack, StackElement)
      /\ n' = summS /\ cont' = summary /\ sub' = 0 /\ alphS' = name + 1
  BY DEF Descend
<1>2. StackLinked' /\ BottomOK'
  BY <1>1, PushLinked
<1>3. CountingOK'
  <2>1. summary \in [0 .. summS - 1 -> 0 .. name] /\ name \in Nat
    BY <1>1, CollectedLevel
  <2>2. \A i : BucketOf(W', i) = summary[i] - 0
    BY <1>1 DEF W, BucketOf
  <2> HIDE DEF W, BucketOf
  <2>3. ASSUME NEW i \in 0 .. n' - 1 PROVE BucketOf(W', i) \in 0 .. alphS' - sub' - 1
    <3>1. summary[i] \in 0 .. name
      BY <1>1, <2>1
    <3> QED BY <1>1, <2>1, <2>2, <3>1
  <2> QED BY <1>1, <2>3 DEF CountingOK, Sorting
<1>4. (LayoutOK /\ SummaryOK /\ SeedingOK /\ PassesOK /\ NamesRight /\ ResultOK)'
  BY <1>1 DEF LayoutOK, SummaryOK, SeedingOK, PassesOK, NamesRight, ResultOK, Sorting
<1> QED BY <1>2, <1>3, <1>4 DEF JInv

\* RetSummarySA: the names, all different, are the ranks of the LMS suffixes.
LEMMA InvertJInv == IInv /\ JInv /\ Invert => JInv'
<1> SUFFICES ASSUME IInv, JInv, Invert PROVE JInv'
  OBVIOUS
<1>1. /\ pc = "collect" /\ k > n /\ pc' = "unwind" /\ corpus' = corpus /\ summS = name + 1
      /\ stack' = Append(stack, StackElement) /\ summS' = summS + 1
      /\ summary' = [p \in 0 .. summS |->
                       IF \E i \in 0 .. summS - 1 : summary[i] + 1 = p
                         THEN CHOOSE i \in 0 .. summS - 1 : summary[i] + 1 = p
                         ELSE summS]
  BY DEF Invert
<1>2. StackLinked' /\ BottomOK' /\ stack' # << >> /\ stack'[Len(stack')] = StackElement
  BY <1>1, PushLinked
<1>3. PICK w : w = W
  OBVIOUS
<1>4. PICK top : top = StackElement
  OBVIOUS
<1>5. PICK u : u = summary'
  OBVIOUS
<1>6. /\ TextOK(w) /\ LMSIndices(w, idc, summS) /\ NamesOK(w, idc, summS, summary)
      /\ summary \in [0 .. summS - 1 -> 0 .. summS - 1] /\ summS \in Nat
      /\ \A x \in 0 .. summS - 1 : \E y \in 0 .. summS - 1 : summary[y] = x
      /\ top.n = w.n /\ top.cont = w.cont /\ top.stypes = w.stypes /\ top.idc = idc
  <2>1. /\ TextOK(w) /\ LMSIndices(w, idc, summS) /\ NamesOK(w, idc, summS, summary)
        /\ summary \in [0 .. summS - 1 -> 0 .. name] /\ name \in Nat
        /\ \A x \in 0 .. name : \E y \in 0 .. summS - 1 : summary[y] = x
    BY <1>1, <1>3, CollectedLevel
  <2>2. name = summS - 1 /\ summS \in Nat
    BY <1>1, <2>1
  <2>3. top.n = w.n /\ top.cont = w.cont /\ top.stypes = w.stypes /\ top.idc = idc
    BY <1>3, <1>4 DEF W, StackElement
  <2> QED BY <2>1, <2>2, <2>3
<1> HIDE DEF W, StackElement, TextOK, LMSIndices, NamesOK, SortsLMS
<1>7. SortsLMS(w, idc, summS, u)
  <2>1. PICK s : s = summS
    OBVIOUS
  <2>2. PICK v : v = summary
    OBVIOUS
  <2>3. u = [p \in 0 .. s |->
               IF \E i \in 0 .. s - 1 : v[i] + 1 = p
                 THEN CHOOSE i \in 0 .. s - 1 : v[i] + 1 = p
                 ELSE s]
    BY <1>1, <1>5, <2>1, <2>2
  <2>4. /\ TextOK(w) /\ LMSIndices(w, idc, s) /\ NamesOK(w, idc, s, v)
        /\ v \in [0 .. s - 1 -> 0 .. s - 1]
        /\ \A x \in 0 .. s - 1 : \E y \in 0 .. s - 1 : v[y] = x
    BY <1>6, <2>1, <2>2
  <2>5. SortsLMS(w, idc, s, u)
    BY ONLY <2>3, <2>4, InvertedNames, ZenonT(40)
  <2> QED BY <2>1, <2>5
<1>8. LMSIndices(top, idc, summS) /\ SortsLMS(top, idc, summS, u)
  BY ONLY <1>6, <1>7, SameSummary
<1>9. summS' - 1 = summS /\ summS' \in Nat
  BY <1>1, <1>6
<1>10. SummaryOK'
  BY <1>1, <1>2, <1>4, <1>5, <1>6, <1>8, <1>9 DEF SummaryOK
<1>11. (CountingOK /\ LayoutOK /\ SeedingOK /\ PassesOK /\ NamesRight /\ ResultOK)'
  BY <1>1 DEF CountingOK, LayoutOK, SeedingOK, PassesOK, NamesRight, ResultOK, Sorting
<1> QED BY <1>2, <1>10, <1>11 DEF JInv

\* fromStack takes the last level from the stack, with its summary sorted.
LEMMA UnwindJInv == IInv /\ JInv /\ Unwind => JInv'
<1> SUFFICES ASSUME IInv, JInv, Unwind PROVE JInv'
  OBVIOUS
<1>1. PICK top : top = stack[Len(stack)]
  OBVIOUS
<1>2. /\ pc = "unwind" /\ pc' = "buckets" /\ corpus' = corpus /\ k' = 0 /\ stack # << >>
      /\ n' = top.n /\ cont' = top.cont /\ sub' = top.sub
      /\ stypes' = top.stypes /\ idc' = top.idc /\ counts' = top.counts
      /\ heads' = << >> /\ tails' = << >> /\ summary' = summary /\ summS' = summS
      /\ stack' = SubSeq(stack, 1, Len(stack) - 1)
  BY <1>1 DEF Unwind
<1>3. PICK u : u = W'
  OBVIOUS
<1>4. /\ u.n = top.n /\ u.cont = top.cont /\ u.stypes = top.stypes
      /\ u.sub = top.sub /\ u.counts = top.counts
  BY <1>2, <1>3 DEF W
<1>5. /\ stack \in Seq(StackElements) /\ Len(stack) \in 1 .. Len(stack)
      /\ Len(stack') = Len(stack) - 1
      /\ \A r \in 1 .. Len(stack') : stack'[r] = stack[r] /\ r \in 1 .. Len(stack)
      /\ (stack' # << >> => Len(stack) - 1 \in 1 .. Len(stack'))
  <2>1. stack \in Seq(StackElements) /\ Len(stack) \in Nat /\ Len(stack) # 0
    BY <1>2 DEF IInv, StackOK
  <2>2. /\ Len(stack') = Len(stack) - 1 /\ stack' \in Seq(StackElements)
        /\ \A r \in 1 .. Len(stack) - 1 : stack'[r] = stack[r]
    BY <1>2, <2>1, DropLast
  <2>3. stack' # << >> => Len(stack') # 0
    BY <2>2
  <2> QED BY <2>1, <2>2, <2>3
<1> HIDE DEF W, TextOK, CountsOK, Summarizes, LMSIndices, SortsLMS, BucketsTo
<1>6. /\ \A r \in 1 .. Len(stack) : TextOK(stack[r]) /\ CountsOK(stack[r])
      /\ \A r \in 1 .. Len(stack) - 1 : Summarizes(stack[r], stack[r + 1].n, stack[r + 1].cont)
  BY DEF JInv, StackLinked
<1>7. TextOK(top) /\ CountsOK(top)
  BY <1>1, <1>5, <1>6
<1>8. StackLinked'
  <2>1. \A r \in 1 .. Len(stack') : TextOK(stack'[r]) /\ CountsOK(stack'[r])
    BY <1>5, <1>6
  <2>2. ASSUME NEW r \in 1 .. Len(stack') - 1
        PROVE  Summarizes(stack'[r], stack'[r + 1].n, stack'[r + 1].cont)
    <3>1. r \in 1 .. Len(stack') /\ r + 1 \in 1 .. Len(stack') /\ r \in 1 .. Len(stack) - 1
      BY <1>5
    <3>2. stack'[r] = stack[r] /\ stack'[r + 1] = stack[r + 1]
      BY <1>5, <3>1
    <3> QED BY <1>6, <3>1, <3>2
  <2>3. ASSUME stack' # << >> PROVE Summarizes(stack'[Len(stack')], n', cont')
    <3>1. PICK r \in 1 .. Len(stack') : r = Len(stack')
      BY <1>5, <2>3
    <3>2. r \in 1 .. Len(stack) - 1 /\ stack'[r] = stack[r] /\ r + 1 = Len(stack)
      BY <1>5, <3>1
    <3>3. Summarizes(stack[r], stack[r + 1].n, stack[r + 1].cont)
      BY <1>6, <3>2
    <3> QED BY <1>1, <1>2, <3>1, <3>2, <3>3
  <2> QED BY <2>1, <2>2, <2>3 DEF StackLinked
<1>9. BottomOK'
  <2>1. corpus \in Corpora /\ IsCorpus(stack[1].n, stack[1].cont)
    BY <1>2 DEF JInv, BottomOK
  <2>2. CASE stack' = << >>
    <3>1. Len(stack) = 1
      BY <1>5, <2>2
    <3>2. IsCorpus(n', cont')
      BY <1>1, <1>2, <2>1, <3>1
    <3> QED BY <1>2, <2>1, <2>2, <3>2 DEF BottomOK, IsCorpus
  <2>3. CASE stack' # << >>
    <3>1. 1 \in 1 .. Len(stack')
      BY <1>5, <2>3
    <3>2. stack'[1] = stack[1]
      BY <1>5, <3>1
    <3> QED BY <1>2, <2>1, <2>3, <3>2 DEF BottomOK, IsCorpus
  <2> QED BY <2>2, <2>3
<1>10. CountingOK'
  <2>1. CountsOK(u)
    BY <1>4, <1>7, SameCounts
  <2> QED BY <1>2, <1>3, <2>1 DEF CountingOK
<1>11. LayoutOK'
  <2>1. << >> \in [0 .. 0 - 1 -> Int]
    OBVIOUS
  <2>2. BucketsTo(W', 0)
    BY DEF BucketsTo
  <2> QED BY <1>2, <2>1, <2>2 DEF LayoutOK, Sorting
<1>12. SummaryOK'
  <2>1. PICK v : v = summary
    OBVIOUS
  <2>2. PICK s : s = summS - 1
    OBVIOUS
  <2>3. summS \in Nat /\ LMSIndices(top, top.idc, s) /\ SortsLMS(top, top.idc, s, v)
    BY <1>1, <1>2, <2>1, <2>2 DEF JInv, SummaryOK
  <2>4. LMSIndices(u, top.idc, s) /\ SortsLMS(u, top.idc, s, v)
    BY ONLY <1>4, <1>7, <2>3, SameSummary
  <2> QED BY <1>2, <1>3, <2>1, <2>2, <2>3, <2>4 DEF SummaryOK
<1>13. (SeedingOK /\ PassesOK /\ NamesRight /\ ResultOK)'
  BY <1>2 DEF SeedingOK, PassesOK, NamesRight, ResultOK, Sorting
<1> QED BY <1>8, <1>9, <1>10, <1>11, <1>12, <1>13 DEF JInv

\* The passes of the way up have sorted the suffixes of the level.
LEMMA UpInOrder ==
  ASSUME IInv, JInv, pc = "induceS", k = Invalid, dir = "up"
  PROVE  TextOK(W) /\ KeysInOrder(W, W.n, sa)
<1>1. PICK w : w = W
  OBVIOUS
<1>2. w.n = n /\ n \in Nat
  BY <1>1 DEF W, IInv, LevelOK
<1>3. SlotsOK(w) /\ TextOK(w)
  <2>1. CountsOK(w) /\ BucketsOK(w)
    BY <1>1 DEF JInv, CountingOK, LayoutOK, Sorting
  <2>2. TextOK(w)
    BY <1>1, LevelIsText
  <2> QED BY <2>1, <2>2 DEF SlotsOK, TextAndCounts
<1> HIDE DEF W, SlotsOK, TextOK, SPassOK, KeysInOrder
<1>4. SPassOK(w, n, slot, sa, -1)
  <2>1. pc = "induceS" =>
          SPassOK(W, IF dir = "down" THEN 1 ELSE n, slot, sa, IF k = Invalid THEN -1 ELSE k)
    BY DEF JInv, PassesOK
  <2>2. (IF dir = "down" THEN 1 ELSE n) = n /\ (IF k = Invalid THEN -1 ELSE k) = -1
    OBVIOUS
  <2> QED BY <1>1, <2>1, <2>2
<1>5. KeysInOrder(w, n, sa)
  BY <1>2, <1>3, <1>4, PassesSort
<1> QED BY <1>1, <1>2, <1>3, <1>5

\* fromStack returns the suffix array of the level.
LEMMA ReturnJInv == IInv /\ JInv /\ Return => JInv'
<1> SUFFICES ASSUME IInv, JInv, Return PROVE JInv'
  OBVIOUS
<1>1. /\ pc = "induceS" /\ k = Invalid /\ dir = "up" /\ corpus' = corpus /\ stack' = stack
      /\ n' = n /\ cont' = cont /\ summary' = sa /\ summS' = n + 1
      /\ pc' = IF stack = << >> THEN "done" ELSE "unwind"
  BY DEF Return, level
<1>2. n \in Nat /\ summS' \in Nat /\ summS' - 1 = n
  BY <1>1 DEF IInv, LevelOK
<1>3. PICK w : w = W
  OBVIOUS
<1>4. w.n = n /\ w.cont = cont
  BY <1>3 DEF W
<1>5. TextOK(w) /\ KeysInOrder(w, w.n, sa)
  BY <1>1, <1>3, UpInOrder
<1> HIDE DEF W, TextOK, CountsOK, Summarizes, KeysInOrder, SortsLMS
<1>6. StackLinked'
  BY <1>1 DEF JInv, StackLinked
<1>7. BottomOK'
  BY <1>1 DEF JInv, BottomOK, IsCorpus
<1>8. SummaryOK'
  <2> SUFFICES ASSUME stack # << >>
               PROVE  /\ LMSIndices(stack[Len(stack)], stack[Len(stack)].idc, n)
                      /\ SortsLMS(stack[Len(stack)], stack[Len(stack)].idc, n, sa)
    BY <1>1, <1>2 DEF SummaryOK
  <2>1. PICK top : top = stack[Len(stack)]
    OBVIOUS
  <2>2. Len(stack) \in 1 .. Len(stack)
    BY DEF IInv, StackOK
  <2>3. TextOK(top) /\ Summarizes(top, w.n, w.cont)
    BY <1>1, <1>4, <2>1, <2>2 DEF JInv, StackLinked
  <2>4. SortsLMS(top, top.idc, n, sa)
    BY ONLY <1>4, <1>5, <2>3, ReturnedOrder
  <2>5. LMSIndices(top, top.idc, n)
    BY <1>4, <2>3 DEF Summarizes
  <2> QED BY <2>1, <2>4, <2>5
<1>9. ResultOK'
  <2>1. IsSuffixArray(sa, w.cont, w.n)
    BY <1>5, OrderIsSuffixArray
  <2> HIDE DEF IsSuffixArray
  <2> QED BY <1>1, <1>4, <2>1 DEF ResultOK
<1>10. (CountingOK /\ LayoutOK /\ SeedingOK /\ PassesOK /\ NamesRight)'
  BY <1>1 DEF CountingOK, LayoutOK, SeedingOK, PassesOK, NamesRight, Sorting
<1> QED BY <1>6, <1>7, <1>8, <1>9, <1>10 DEF JInv

\* A step that changes nothing.
LEMMA StutterJInv == JInv /\ UNCHANGED vars => JInv'
<1> SUFFICES ASSUME JInv, UNCHANGED vars PROVE JInv'
  OBVIOUS
<1>1. /\ corpus' = corpus /\ pc' = pc /\ dir' = dir /\ stack' = stack /\ n' = n /\ cont' = cont
      /\ sub' = sub /\ stypes' = stypes /\ counts' = counts /\ heads' = heads /\ tails' = tails
      /\ slot' = slot /\ sa' = sa /\ k' = k /\ lms' = lms /\ name' = name /\ bef' = bef
      /\ idc' = idc /\ summary' = summary /\ summS' = summS /\ alphS' = alphS
  BY DEF vars, level, buckets, naming, result
<1>2. W' = W
  BY <1>1 DEF W
<1> HIDE DEF W, TextOK, CountsOK, Summarizes, BucketsOK, BucketsTo, LMSIndices, SortsLMS, SeedOK,
         LPassOK, SPassOK, KeysInOrder, NamingTo, CollectTo, IsSuffixArray
<1>3. StackLinked' /\ BottomOK'
  BY <1>1 DEF JInv, StackLinked, BottomOK, IsCorpus
<1>4. CountingOK' /\ LayoutOK'
  BY <1>1, <1>2 DEF JInv, CountingOK, LayoutOK
<1>5. SummaryOK' /\ SeedingOK'
  BY <1>1, <1>2 DEF JInv, SummaryOK, SeedingOK, Cells
<1>6. PassesOK' /\ NamesRight' /\ ResultOK'
  BY <1>1, <1>2 DEF JInv, PassesOK, NamesRight, ResultOK
<1> QED BY <1>3, <1>4, <1>5, <1>6 DEF JInv
-----------------------------------------------------------------------------
\* What the two directions of induced sorting rest on holds in every reachable state.
THEOREM SortingInductive == Spec => []JInv
<1>1. Init => JInv
  BY InitJInv
<1>2. IInv /\ JInv /\ [Next]_vars => JInv'
  BY ClassifyJInv, CountJInv, MakeBucketsJInv, BeginSeedJInv, GuessWrites, PlaceWrites,
     EndSeedJInv, InduceLWrites, BeginInduceSJInv, InduceSWrites, BeginNamingJInv, NameJInv,
     BeginCollectJInv, CollectJInv, DescendJInv, InvertJInv, UnwindJInv, ReturnJInv,
     StutterJInv DEF Next, Done
<1> QED BY <1>1, <1>2, Inductive, PTL DEF Spec

-----------------------------------------------------------------------------
\* While the level is sorted a cell is free or has a suffix of its bucket.
LEMMA CellFacts ==
  ASSUME IInv, JInv, pc \in Sorting
  PROVE  /\ SlotsOK(W) /\ W.n = n /\ n \in Nat
         /\ sa \in [0 .. n -> Cells]
         /\ \A p \in 1 .. n : sa[p] \in 0 .. n => sa[p] \in 0 .. n - 1 /\ InZone(W, p, sa[p])
<1>1. PICK w : w = W
  OBVIOUS
<1>2. w.n = n /\ n \in Nat
  BY <1>1 DEF W, IInv, LevelOK
<1>3. SlotsOK(w)
  <2>1. CountsOK(w) /\ BucketsOK(w)
    BY <1>1 DEF JInv, CountingOK, LayoutOK
  <2>2. TextOK(w)
    BY <1>1, LevelIsText DEF Sorting
  <2> QED BY <2>1, <2>2 DEF SlotsOK, TextAndCounts
<1> HIDE DEF W, SlotsOK, InZone
<1>4. CASE pc \in {"guess", "place"}
  <2>1. PICK from, Q : SeedOK(w, from, slot, sa, Q)
    BY <1>1, <1>4 DEF JInv, SeedingOK
  <2>2. sa \in [0 .. n -> Cells]
    BY <1>4 DEF JInv, SeedingOK
  <2>3. ASSUME NEW p \in 1 .. n, sa[p] \in 0 .. n PROVE sa[p] \in 0 .. n - 1 /\ InZone(w, p, sa[p])
    <3>1. sa[p] \in LMSs(w) /\ InZone(w, p, sa[p])
      BY <1>2, <2>1, <2>3 DEF SeedOK
    <3> QED BY <1>2, <3>1 DEF LMSs
  <2> QED BY <1>1, <1>2, <1>3, <2>2, <2>3
<1>5. CASE pc = "induceL"
  <2>1. PICK from : LPassOK(w, from, slot, sa, k)
    BY <1>1, <1>5 DEF JInv, PassesOK
  <2>2. sa \in [0 .. n -> Cells]
    BY <1>5 DEF JInv, SeedingOK
  <2>3. \A p \in 1 .. n : sa[p] \in 0 .. n => sa[p] \in 0 .. n - 1 /\ InZone(w, p, sa[p])
    BY <1>2, <2>1 DEF LPassOK
  <2> QED BY <1>1, <1>2, <1>3, <2>2, <2>3
<1>6. CASE pc = "induceS"
  <2>1. PICK from, at : SPassOK(w, from, slot, sa, at)
    BY <1>1, <1>6 DEF JInv, PassesOK
  <2>2. sa \in [0 .. n -> Cells]
    BY <1>6 DEF JInv, SeedingOK
  <2>3. \A p \in 1 .. n : sa[p] \in 0 .. n => sa[p] \in 0 .. n - 1 /\ InZone(w, p, sa[p])
    BY <1>2, <2>1 DEF SPassOK
  <2> QED BY <1>1, <1>2, <1>3, <2>2, <2>3
<1>7. CASE pc \in {"name", "collect"}
  <2>1. KeysInOrder(w, 1, sa)
    BY <1>1, <1>7 DEF JInv, NamesRight
  <2>2. sa \in [0 .. n -> Cells]
    <3>1. sa \in [0 .. n -> 0 .. n]
      BY <1>2, <2>1 DEF KeysInOrder
    <3> QED BY <3>1 DEF Cells
  <2>3. \A p \in 1 .. n : sa[p] \in 0 .. n - 1 /\ InZone(w, p, sa[p])
    BY <1>2, <2>1 DEF KeysInOrder
  <2> QED BY <1>1, <1>2, <1>3, <2>2, <2>3
<1> QED BY <1>4, <1>5, <1>6, <1>7 DEF Sorting

\* PutAtHead and PutAtTail (SuffixArrayInducedSorting_bu0.hpp: guessSortLMS, LMSSort,
\* LInduceSort, SInduceSort) test no bound: every entry stays inside of the bucket of its
\* first symbol, for every corpus and at every level.
THEOREM EntriesInOwnBucket == Spec => []InOwnBucket
<1>1. IInv /\ JInv => InOwnBucket
  <2> SUFFICES ASSUME IInv, JInv, pc \in Sorting, NEW p \in 1 .. n, sa[p] # Invalid
               PROVE  /\ sa[p] \in 0 .. n - 1
                      /\ p \in heads[Bucket(sa[p])] .. tails[Bucket(sa[p])]
    BY DEF InOwnBucket
  <2>1. PICK w : w = W
    OBVIOUS
  <2>2. PICK j : j = sa[p]
    OBVIOUS
  <2>3. PICK b : b = Bucket(sa[p])
    OBVIOUS
  <2>4. /\ SlotsOK(w) /\ w.n = n /\ n \in Nat /\ j \in 0 .. n - 1
        /\ InZone(w, p, j) /\ p \in Int
    <3>1. sa \in [0 .. n -> Cells] /\ SlotsOK(w) /\ w.n = n /\ n \in Nat
      BY <2>1, CellFacts
    <3>2. p \in 0 .. n /\ j \in 0 .. n
      BY <2>2, <3>1 DEF Cells
    <3> HIDE DEF W, InZone, SlotsOK
    <3> QED BY <2>1, <2>2, <3>1, <3>2, CellFacts
  <2>5. w.heads = heads /\ w.tails = tails /\ b = BucketOf(w, j)
    <3>1. w.heads = heads /\ w.tails = tails /\ w.cont = cont /\ w.sub = sub
      BY <2>1 DEF W
    <3> QED BY <2>2, <2>3, <3>1 DEF BucketOf, Bucket
  <2>6. b \in DOMAIN w.counts
    BY <2>4, <2>5, BucketFacts
  <2>7. w.heads[b] \in Nat /\ w.tails[b] \in Nat
    BY <2>4, <2>6, BucketFacts
  <2>8. w.heads[b] <= p /\ p <= w.tails[b]
    BY <2>4, <2>5 DEF InZone
  <2>9. p \in heads[b] .. tails[b]
    BY <2>4, <2>5, <2>7, <2>8
  <2> QED BY <2>2, <2>3, <2>4, <2>9
<1> QED BY <1>1, Inductive, SortingInductive, PTL

\* summarizeSA (SuffixArrayInducedSorting_bu0.hpp) looks up every entry of guessedSA in
\* all_lms without a test for invalid: there is none, and no suffix is missing.
THEOREM EverySuffixPlaced == Spec => []AllPlaced
<1>1. IInv /\ JInv => AllPlaced
  <2> SUFFICES ASSUME IInv, JInv, pc \in {"name", "collect"} PROVE {sa[p] : p \in 0 .. n} = 0 .. n
    BY DEF AllPlaced
  <2>1. /\ sa \in [0 .. n -> 0 .. n]
        /\ \A j \in 0 .. n : \E p \in 0 .. n : sa[p] = j
    <3>1. W.n = n
      BY DEF W
    <3> HIDE DEF W
    <3> QED BY <3>1 DEF JInv, NamesRight, KeysInOrder
  <2> QED BY <2>1
<1> QED BY <1>1, Inductive, SortingInductive, PTL

\* Each element of the Stack of toStack is at most half of the one below it.
THEOREM StackIsLogarithmic == Spec => []LevelsHalve
<1>1. IInv /\ JInv => LevelsHalve
  <2> SUFFICES ASSUME IInv, JInv, dir = "down", NEW r \in 1 .. Len(stack)
               PROVE  2 * (IF r + 1 > Len(stack) THEN n ELSE stack[r + 1].n)
                        <= (IF r > Len(stack) THEN n ELSE stack[r].n) + 1
    BY DEF LevelsHalve
  <2>1. /\ pc # "unwind" /\ Len(stack) \in Nat
    BY DEF IInv, ControlOK, StackOK
  <2>2. CASE r = Len(stack)
    <3>1. stack # << >>
      BY <2>1
    <3>2. 2 * n <= stack[r].n + 1
      BY <2>1, <2>2, <3>1 DEF JInv, StackLinked, Summarizes
    <3> QED BY <2>1, <2>2, <3>2
  <2>3. CASE r # Len(stack)
    <3>1. r \in 1 .. Len(stack) - 1
      BY <2>1, <2>3
    <3>2. 2 * stack[r + 1].n <= stack[r].n + 1
      BY <3>1 DEF JInv, StackLinked, Summarizes
    <3> QED BY <2>1, <3>1, <3>2
  <2> QED BY <2>2, <2>3
<1> QED BY <1>1, Inductive, SortingInductive, PTL

\* summarizeSA (SuffixArrayInducedSorting_bu0.hpp) returns a text whose suffixes are in the
\* order of the LMS suffixes they stand for, which toStack of the summary relies on.
THEOREM ReductionIsFaithful == Spec => []ReductionFaithful
<1>1. IInv /\ JInv => ReductionFaithful
  <2> SUFFICES ASSUME IInv, JInv, pc = "collect", k > n, NEW a \in 0 .. summS - 1, NEW b \in 0 .. summS - 1
               PROVE  SuffixLess(summary, summS, a, b) <=> SuffixLess(cont, n, idc[a], idc[b])
    BY DEF ReductionFaithful
  <2>1. PICK top : top = StackElement
    OBVIOUS
  <2>2. top.n = n /\ top.cont = cont /\ top.idc = idc
    BY <2>1 DEF StackElement
  <2> HIDE DEF StackElement
  <2>3. Faithful(top, top.idc, summS, summary)
    BY <2>1, CollectedLevel DEF Summarizes
  <2> QED BY <2>2, <2>3 DEF Faithful, Less
<1> QED BY <1>1, Inductive, SortingInductive, PTL

\* What RetSummarySA and fromStack (SuffixArrayInducedSorting_bu0.hpp) hand on to fromStack
\* of the next level sorts all the LMS suffixes of that level.
THEOREM SummaryIsSorted == Spec => []SummarySorted
<1>1. IInv /\ JInv => SummarySorted
  <2> SUFFICES ASSUME IInv, JInv, pc = "unwind" PROVE SummarySorted
    BY DEF SummarySorted
  <2>1. PICK top : top = stack[Len(stack)]
    OBVIOUS
  <2>2. PICK s : s = summS - 1
    OBVIOUS
  <2>3. /\ summS \in Nat /\ LMSIndices(top, top.idc, s) /\ SortsLMS(top, top.idc, s, summary)
    BY <2>1, <2>2 DEF JInv, SummaryOK
  <2>4. /\ s \in Nat \ {0} /\ summS = s + 1
        /\ DOMAIN top.idc = 0 .. s - 1 /\ top.idc[s - 1] = top.n
    BY <2>2, <2>3 DEF LMSIndices
  <2>5. /\ \A p \in 1 .. s : summary[p] \in 0 .. s - 1
        /\ summary[1] = s - 1
        /\ \A p, q \in 1 .. s : p < q => Less(top, top.idc[summary[p]], top.idc[summary[q]])
    BY <2>3 DEF SortsLMS
  <2>6. Cardinality(DOMAIN top.idc) = s
    <3>1. 0 \in Int /\ s - 1 \in Int
      BY <2>4
    <3>2. Cardinality(0 .. s - 1) = IF 0 > s - 1 THEN 0 ELSE s - 1 - 0 + 1
      BY <3>1, FS_Interval
    <3> QED BY <2>4, <3>2
  <2>7. ASSUME NEW p \in 1 .. summS - 2
        PROVE  SuffixLess(top.cont, top.n, top.idc[summary[p]], top.idc[summary[p + 1]])
    <3>1. p \in 1 .. s /\ p + 1 \in 1 .. s /\ p < p + 1
      BY <2>4
    <3> QED BY <2>5, <3>1 DEF Less
  <2>8. \A p \in 1 .. summS - 1 : summary[p] \in DOMAIN top.idc
    BY <2>4, <2>5
  <2> QED BY <2>1, <2>4, <2>5, <2>6, <2>7, <2>8 DEF SummarySorted
<1> QED BY <1>1, Inductive, SortingInductive, PTL

\* fromStack (SuffixArrayInducedSorting_bu0.hpp) never moves a suffix that has reached its
\* place: after each step the cells that are settled are in order.
THEOREM WayUpIsSorted == Spec => []WayUpSorted
<1>1. IInv /\ JInv => WayUpSorted
  <2> SUFFICES ASSUME IInv, JInv, dir = "up", pc \in Sorting,
                      NEW p \in 1 .. n, sa[p] # Invalid,
                      pc = "induceS" /\ stypes[sa[p]] => p > slot[Bucket(sa[p])],
                      NEW q \in 1 .. n, sa[q] # Invalid,
                      pc = "induceS" /\ stypes[sa[q]] => q > slot[Bucket(sa[q])],
                      p < q
               PROVE  SuffixLess(cont, n, sa[p], sa[q])
    BY DEF WayUpSorted
  <2>1. PICK w : w = W
    OBVIOUS
  <2>2. PICK i : i = sa[p]
    OBVIOUS
  <2>3. PICK j : j = sa[q]
    OBVIOUS
  <2>4. /\ w.n = n /\ w.cont = cont /\ w.stypes = stypes /\ n \in Nat /\ TextOK(w)
        /\ i \in 0 .. n /\ j \in 0 .. n
        /\ BucketOf(w, i) = Bucket(i) /\ BucketOf(w, j) = Bucket(j)
    <3>1. SlotsOK(W) /\ n \in Nat /\ sa \in [0 .. n -> Cells]
      BY CellFacts
    <3>2. w.n = n /\ w.cont = cont /\ w.stypes = stypes /\ w.sub = sub
      BY <2>1 DEF W
    <3>3. p \in 0 .. n /\ q \in 0 .. n
      BY <3>1
    <3>4. i \in 0 .. n /\ j \in 0 .. n
      BY <2>2, <2>3, <3>1, <3>3 DEF Cells
    <3> QED BY <2>1, <3>1, <3>2, <3>4 DEF SlotsOK, TextAndCounts, BucketOf, Bucket
  <2>5. pc \in {"place", "induceL", "induceS"}
    BY DEF IInv, ControlOK, Sorting
  <2> HIDE DEF W, TextOK, Bucket, BucketOf, KeyLess
  <2>6. i # j /\ ~ KeyLess(w, n, j, i)
    <3>1. p \in 1 .. w.n /\ q \in 1 .. w.n /\ p \in 0 .. w.n /\ q \in 0 .. w.n
          /\ p \in Int /\ q \in Int
      BY <2>4
    <3>2. CASE pc = "place"
      <4>1. PICK Q : SeedOK(w, n, slot, sa, Q)
        BY <2>1, <3>2 DEF JInv, SeedingOK
      <4> QED BY <2>2, <2>3, <2>4, <3>1, <4>1 DEF SeedOK, KeysSorted, Used
    <3>3. CASE pc = "induceL"
      <4>1. LPassOK(w, n, slot, sa, k)
        BY <2>1, <3>3 DEF JInv, PassesOK
      <4> QED BY <2>2, <2>3, <2>4, <3>1, <4>1 DEF LPassOK, KeysSorted, Used
    <3>4. CASE pc = "induceS"
      <4>1. PICK at : SPassOK(w, n, slot, sa, at)
        BY <2>1, <3>4 DEF JInv, PassesOK
      <4>2. w.stypes[j] => slot[BucketOf(w, j)] < q
        BY <2>3, <2>4, <3>4, <4>1
      <4>3. w.stypes[i] => slot[BucketOf(w, i)] < p
        BY <2>2, <2>4, <3>4, <4>1
      <4>4. p \in Settled(w, slot, sa) /\ q \in Settled(w, slot, sa)
        BY <2>2, <2>3, <2>4, <3>1, <4>2, <4>3 DEF Settled
      <4> HIDE DEF Settled
      <4>5. ~ KeyLess(w, n, j, i)
        BY <2>2, <2>3, <4>1, <4>4 DEF SPassOK, KeysSorted
      <4>6. i # j
        BY <2>2, <2>3, <3>1, <4>1, <4>4 DEF SPassOK
      <4> QED BY <4>5, <4>6
    <3> QED BY <2>5, <3>2, <3>3, <3>4
  <2>7. Less(w, i, j)
    BY <2>4, <2>6, KeysDecide
  <2> QED BY <2>2, <2>3, <2>4, <2>7 DEF Less
<1> QED BY <1>1, Inductive, SortingInductive, PTL

\* What is written into a free cell overwrites nothing.
LEMMA FillsNothingOver ==
  ASSUME IInv, JInv, pc \in Sorting, FillsACell, NEW p \in 0 .. n, sa[p] # Invalid
  PROVE  sa'[p] = sa[p]
<1>1. sa \in [0 .. n -> Cells]
  BY CellFacts
<1>2. sa[p] \in 0 .. n
  BY <1>1 DEF Cells
<1>3. CASE sa' = sa
  BY <1>3
<1>4. ASSUME NEW P \in 1 .. n, NEW j \in 0 .. n, sa[P] \notin 0 .. n, sa' = [sa EXCEPT ![P] = j]
      PROVE  sa'[p] = sa[p]
  <2>1. p # P
    BY <1>2, <1>4
  <2> QED BY <1>1, <1>4, <2>1
<1> QED BY <1>3, <1>4 DEF FillsACell

\* None of the writes of the sorting loops (SuffixArrayInducedSorting_bu0.hpp, the cells of
\* guessedSA and suffIdc) loses a suffix, but for an LMS suffix that SInduceSort places anew.
THEOREM NoEntryIsLost == Spec => NothingOverwritten
<1>1. IInv /\ JInv /\ [Next]_vars =>
        [{pc, pc'} \subseteq Sorting =>
           \A p \in 0 .. n :
             sa[p] # Invalid /\ sa'[p] # sa[p] =>
               pc = "induceS" /\ sa[p] # 0 /\ IsLMS(sa[p])]_vars
  <2> SUFFICES ASSUME IInv, JInv, Next, pc \in Sorting, pc' \in Sorting,
                      NEW p \in 0 .. n, sa[p] # Invalid, sa'[p] # sa[p]
               PROVE  pc = "induceS" /\ sa[p] # 0 /\ IsLMS(sa[p])
    OBVIOUS
  <2> HIDE DEF IInv, JInv
  <2>1. CASE Guess
    BY <2>1, GuessWrites, FillsNothingOver
  <2>2. CASE Place
    BY <2>2, PlaceWrites, FillsNothingOver
  <2>3. CASE InduceL
    BY <2>3, InduceLWrites, FillsNothingOver
  <2>4. CASE InduceS
    BY <2>4, InduceSWrites DEF InduceS
  <2>5. CASE EndSeed
    <3>1. sa' = [sa EXCEPT ![0] = n] /\ sa[0] \notin 0 .. n
      BY <2>5, EndSeedJInv
    <3>2. sa \in [0 .. n -> Cells]
      BY CellFacts
    <3>3. p # 0
      BY <3>1, <3>2 DEF Cells
    <3> QED BY <3>1, <3>2, <3>3
  <2>6. CASE BeginInduceS \/ BeginNaming \/ Name \/ BeginCollect \/ Collect
    BY <2>6, BeginInduceSJInv, BeginNamingJInv, NameJInv, BeginCollectJInv, CollectJInv
  <2>7. CASE \/ Classify \/ Count \/ MakeBuckets \/ BeginSeed \/ Unwind \/ Done
             \/ Descend \/ Invert \/ Return
    BY <2>7 DEF Sorting, Classify, Count, MakeBuckets, BeginSeed, Unwind, Done, Descend,
                Invert, Return
  <2> QED BY <2>1, <2>2, <2>3, <2>4, <2>5, <2>6, <2>7 DEF Next
<1> QED BY <1>1, Inductive, SortingInductive, PTL DEF Spec, NothingOverwritten
-----------------------------------------------------------------------------
\* SuffixArrayInducedSorting::operator() returns one suffix array, and the right one, of
\* every corpus: the algorithm is what SuffixArray::init asks of its algorithm (SuffixSort).
THEOREM SortsEveryCorpus == Spec => SortsTheCorpus
<1> DEFINE out == IF pc = "done" THEN summary ELSE << >>
<1>1. Init => Contract!Init
  BY DEF Init, Contract!Init
<1>2. IInv /\ JInv /\ JInv' /\ [Next]_vars => [Contract!Sort]_<<corpus, out>>
  <2> SUFFICES ASSUME JInv, JInv', [Next]_vars PROVE [Contract!Sort]_<<corpus, out>>
    OBVIOUS
  <2>1. CASE Return
    <3>1. /\ pc = "induceS" /\ corpus' = corpus
          /\ n' = n /\ cont' = cont /\ stack' = stack
          /\ pc' = IF stack = << >> THEN "done" ELSE "unwind"
      BY <2>1 DEF Return, level
    <3>2. CASE stack = << >>
      <4>1. IsSuffixArray(summary', cont, n)
        BY <3>1, <3>2 DEF JInv, ResultOK
      <4>2. n = corpus.size /\ cont = corpus.data
        BY <3>2 DEF JInv, BottomOK, IsCorpus
      <4>3. Contract!IsSuffixArray(summary', corpus.data, corpus.size)
        <5>1. \A x, m, i, j : Contract!SuffixLess(x, m, i, j) <=> SuffixLess(x, m, i, j)
          BY DEF SuffixLess, LexLess, Contract!SuffixLess, Contract!LexLess
        <5>2. \A r, x, m : IsSuffixArray(r, x, m) => Contract!IsSuffixArray(r, x, m)
          BY ONLY <5>1 DEF IsSuffixArray, Contract!IsSuffixArray
        <5>3. IsSuffixArray(summary', corpus.data, corpus.size)
          BY <4>1, <4>2
        <5> QED BY ONLY <5>2, <5>3
      <4>4. out = << >> /\ out' = summary'
        BY <3>1, <3>2
      <4>5. Contract!IsSuffixArray(out', corpus.data, corpus.size)
        BY <4>3, <4>4
      <4>6. Contract!Sort
        BY <3>1, <4>4, <4>5 DEF Contract!Sort
      <4> QED BY <4>6
    <3>3. CASE stack # << >>
      BY <3>1, <3>3
    <3> QED BY <3>2, <3>3
  <2>2. CASE ~ Return
    <3>1. corpus' = corpus /\ (pc' = "done" <=> pc = "done") /\ (pc = "done" => summary' = summary)
      BY <2>2 DEF Next, Done, vars, result, level, naming, buckets, Classify, Count, MakeBuckets,
         BeginSeed, Guess, Place, EndSeed, InduceL, BeginInduceS, InduceS, BeginNaming, Name,
         BeginCollect, Collect, Descend, Invert, Unwind
    <3> QED BY <3>1
  <2> QED BY <2>1, <2>2
<1> QED BY <1>1, <1>2, Inductive, SortingInductive, PTL DEF Spec, SortsTheCorpus, Contract!Spec
=============================================================================
