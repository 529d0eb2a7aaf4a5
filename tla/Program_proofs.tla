----------------------------- MODULE Program_proofs -----------------------------
(***************************************************************************)
(* Theorems about the program and its two inputs, for every list of        *)
(* arguments and every corpus: what the constructor of Modes makes of the  *)
(* command line, and what read_data hands to the construction.             *)
(***************************************************************************)
EXTENDS Program, SuffixOrder_proofs, SequenceTheorems

\* The options that take the next argument, and the others that are no algorithm.
ValueOptions == {"-o", "-i", "-f", "-sw"}
FlagOptions  == {"-tc", "-lcp", "-fn"}

\* Each option has a mode of its own.
LEMMA OptionFacts ==
  /\ DOMAIN Valued = ValueOptions /\ DOMAIN Flags = FlagOptions
  /\ Algorithms \cap (ValueOptions \cup FlagOptions) = {} /\ ValueOptions \cap FlagOptions = {}
  /\ \A o \in ValueOptions : Valued[o] \in Keys \ {"Algorithm"}
  /\ \A o \in FlagOptions : Flags[o] \in Keys \ {"Algorithm"}
  /\ \A o, p \in ValueOptions : Valued[o] = Valued[p] => o = p
  /\ \A o, p \in FlagOptions : Flags[o] = Flags[p] => o = p
  /\ \A o \in ValueOptions, p \in FlagOptions : Valued[o] # Flags[p]
  /\ "Algorithm" \in Keys
<1>1. DOMAIN Valued = ValueOptions /\ DOMAIN Flags = FlagOptions
  BY DEF Valued, Flags, ValueOptions, FlagOptions
<1>2. /\ Valued["-o"] = "OutFile" /\ Valued["-i"] = "InFile"
      /\ Valued["-f"] = "Infix" /\ Valued["-sw"] = "SubstringWidth"
  BY DEF Valued
<1>3. /\ Flags["-tc"] = "TryCompression" /\ Flags["-lcp"] = "useLCP"
      /\ Flags["-fn"] = "FilterNewline"
  BY DEF Flags
<1>4. /\ \A o \in ValueOptions : Valued[o] \in Keys
      /\ \A o \in FlagOptions : Flags[o] \in Keys
      /\ "Algorithm" \in Keys
  BY <1>1 DEF Keys
<1>5. Algorithms \cap (ValueOptions \cup FlagOptions) = {} /\ ValueOptions \cap FlagOptions = {}
  BY DEF Algorithms, ValueOptions, FlagOptions
<1>6. /\ \A o, p \in ValueOptions : Valued[o] = Valued[p] => o = p
      /\ \A o \in ValueOptions : Valued[o] # "Algorithm"
  BY <1>2 DEF ValueOptions
<1>7. /\ \A o, p \in FlagOptions : Flags[o] = Flags[p] => o = p
      /\ \A o \in FlagOptions : Flags[o] # "Algorithm"
  BY <1>3 DEF FlagOptions
<1>8. \A o \in ValueOptions, p \in FlagOptions : Valued[o] # Flags[p]
  BY <1>2, <1>3 DEF ValueOptions, FlagOptions
<1> QED BY <1>1, <1>4, <1>5, <1>6, <1>7, <1>8
-----------------------------------------------------------------------------
\* From s up to p, and no further to the left, all arguments of a take a value.
RunFrom(a, s, p) ==
  /\ \A q \in s .. p - 1 : a[q] \in ValueOptions
  /\ s = 1 \/ a[s - 1] \notin ValueOptions

\* Argument p of the list a is the value of the one before it.
ValueIn(a, p) == \E s \in 1 .. p - 1 : (p - s) % 2 = 1 /\ RunFrom(a, s, p)

\* There is one such row of arguments before p, empty perhaps.
LEMMA RunExists ==
  ASSUME NEW a, NEW p \in Nat \ {0}
  PROVE  \E s \in 1 .. p : RunFrom(a, s, p)
<1> DEFINE T == {s \in 1 .. p : \A q \in s .. p - 1 : a[q] \in ValueOptions}
<1>1. p \in T /\ T \in SUBSET Nat
  OBVIOUS
<1>2. PICK s \in T : \A t \in T : s <= t
  BY <1>1, LeastElement
<1>3. ASSUME s # 1, a[s - 1] \in ValueOptions PROVE FALSE
  <2>1. s - 1 \in 1 .. p /\ ~ (s <= s - 1)
    BY <1>2, <1>3
  <2>2. \A q \in s - 1 .. p - 1 : q = s - 1 \/ q \in s .. p - 1
    BY <1>2
  <2>3. s - 1 \in T
    BY <1>2, <1>3, <2>1, <2>2
  <2> QED BY <1>2, <2>1, <2>3
<1> QED BY <1>2, <1>3 DEF RunFrom

\* And no other.
LEMMA RunUnique ==
  ASSUME NEW a, NEW p \in Nat \ {0}, NEW s \in 1 .. p, NEW t \in 1 .. p,
         RunFrom(a, s, p), RunFrom(a, t, p)
  PROVE  s = t
<1>1. ASSUME NEW x \in 1 .. p, NEW y \in 1 .. p, RunFrom(a, x, p), RunFrom(a, y, p), x < y
      PROVE  FALSE
  <2>1. y - 1 \in x .. p - 1 /\ y # 1
    BY <1>1
  <2> QED BY <1>1, <2>1 DEF RunFrom
<1>2. ~ (s < t) /\ ~ (t < s)
  BY <1>1
<1> QED BY <1>2

\* The counter of the constructor in one formula: the argument after one that takes a
\* value, and is not itself a value, is a value.
LEMMA NextIsValue ==
  ASSUME NEW a, NEW p \in Nat \ {0}
  PROVE  ValueIn(a, p + 1) <=> a[p] \in ValueOptions /\ ~ ValueIn(a, p)
<1>1. PICK s \in 1 .. p : RunFrom(a, s, p)
  BY RunExists
<1>2. ValueIn(a, p) <=> (p - s) % 2 = 1
  <2>1. ASSUME ValueIn(a, p) PROVE (p - s) % 2 = 1
    <3>1. PICK t \in 1 .. p - 1 : (p - t) % 2 = 1 /\ RunFrom(a, t, p)
      BY <2>1 DEF ValueIn
    <3>2. t \in 1 .. p
      OBVIOUS
    <3>3. t = s
      BY <1>1, <3>1, <3>2, RunUnique
    <3> QED BY <3>1, <3>3
  <2>2. ASSUME (p - s) % 2 = 1 PROVE ValueIn(a, p)
    <3>1. s # p
      BY <2>2
    <3>2. s \in 1 .. p - 1
      BY <3>1
    <3> QED BY <1>1, <2>2, <3>2 DEF ValueIn
  <2> QED BY <2>1, <2>2
<1>3. CASE a[p] \in ValueOptions
  <2>1. RunFrom(a, s, p + 1)
    <3>1. \A q \in s .. (p + 1) - 1 : q = p \/ q \in s .. p - 1
      OBVIOUS
    <3> QED BY <1>1, <1>3, <3>1 DEF RunFrom
  <2>2. s \in 1 .. (p + 1) - 1 /\ s \in 1 .. p + 1 /\ p + 1 \in Nat \ {0}
    OBVIOUS
  <2>3. ASSUME ValueIn(a, p + 1) PROVE ((p + 1) - s) % 2 = 1
    <3>1. PICK t \in 1 .. (p + 1) - 1 : ((p + 1) - t) % 2 = 1 /\ RunFrom(a, t, p + 1)
      BY <2>3 DEF ValueIn
    <3>2. t \in 1 .. p + 1
      OBVIOUS
    <3>3. t = s
      BY <2>1, <2>2, <3>1, <3>2, RunUnique
    <3> QED BY <3>1, <3>3
  <2>4. ((p + 1) - s) % 2 = 1 => ValueIn(a, p + 1)
    BY <2>1, <2>2 DEF ValueIn
  <2>5. ((p + 1) - s) % 2 = 1 <=> ~ ((p - s) % 2 = 1)
    OBVIOUS
  <2> QED BY <1>2, <1>3, <2>3, <2>4, <2>5
<1>4. CASE a[p] \notin ValueOptions
  <2>1. ASSUME ValueIn(a, p + 1) PROVE FALSE
    <3>1. PICK t \in 1 .. (p + 1) - 1 : RunFrom(a, t, p + 1)
      BY <2>1 DEF ValueIn
    <3>2. p \in t .. (p + 1) - 1
      OBVIOUS
    <3> QED BY <1>4, <3>1, <3>2 DEF RunFrom
  <2> QED BY <1>4, <2>1
<1> QED BY <1>3, <1>4

-----------------------------------------------------------------------------
\* What a word is compared with to see whether there is one.
NoWord == ""

\* The values given for option o among the first n arguments, and the last of them.
ValuesOf(a, o, n) == {p \in 2 .. n : ValueIn(a, p) /\ a[p - 1] = o}

LastValue(a, o, n, v) ==
  \/ ValuesOf(a, o, n) = {} /\ v = Default[Valued[o]]
  \/ \E p \in ValuesOf(a, o, n) : (\A q \in ValuesOf(a, o, n) : q <= p) /\ v = a[p]

FlagGiven(a, o, n) == \E p \in 1 .. n : a[p] = o /\ ~ ValueIn(a, p)

\* The algorithms asked for among the first n arguments, and the last of them.
AlgorithmsUpTo(a, n) == {p \in 1 .. n : a[p] \in Algorithms /\ ~ ValueIn(a, p)}

LastAsked(a, n, v) ==
  \/ AlgorithmsUpTo(a, n) = {} /\ v = Default["Algorithm"]
  \/ \E p \in AlgorithmsUpTo(a, n) : (\A q \in AlgorithmsUpTo(a, n) : q <= p) /\ v = a[p]

\* The arguments among the first n that are neither options nor values; the short
\* arguments, which are those that are not empty; and which two they are.
SinglesUpTo(a, n) == {p \in 1 .. n : ~ ValueIn(a, p) /\ Positional(a[p])}
ShortsUpTo(a, n) == {p \in SinglesUpTo(a, n) : a[p] # NoWord}

ShortArgs(a, n, u, v) ==
  \/ u = NoWord /\ v = NoWord /\ ShortsUpTo(a, n) = {}
  \/ u # NoWord /\ v = NoWord /\ \E p \in Nat : ShortsUpTo(a, n) = {p} /\ a[p] = u
  \/ /\ u # NoWord /\ v # NoWord
     /\ \E p, q \in Nat : /\ p < q /\ ShortsUpTo(a, n) = {p, q} /\ a[p] = u /\ a[q] = v
                         /\ \A r \in SinglesUpTo(a, n) : r <= q

\* An option and its value: two arguments that say one thing.
LEMMA PassValue ==
  ASSUME NEW a, NEW k \in Nat \ {0}, ~ ValueIn(a, k), a[k] \in ValueOptions
  PROVE  /\ ~ ValueIn(a, k + 2)
         /\ LastValue(a, a[k], k + 1, a[k + 1])
         /\ \A o \in ValueOptions \ {a[k]} :
              \A v : LastValue(a, o, k - 1, v) => LastValue(a, o, k + 1, v)
         /\ \A o \in FlagOptions : FlagGiven(a, o, k + 1) <=> FlagGiven(a, o, k - 1)
         /\ SinglesUpTo(a, k + 1) = SinglesUpTo(a, k - 1)
         /\ AlgorithmsUpTo(a, k + 1) = AlgorithmsUpTo(a, k - 1)
<1>1. ValueIn(a, k + 1)
  BY NextIsValue
<1>2. ~ ValueIn(a, k + 2)
  <2>1. k + 1 \in Nat \ {0} /\ (k + 1) + 1 = k + 2
    OBVIOUS
  <2> QED BY <1>1, <2>1, NextIsValue
<1>3. LastValue(a, a[k], k + 1, a[k + 1])
  <2>1. k + 1 \in ValuesOf(a, a[k], k + 1)
    BY <1>1 DEF ValuesOf
  <2>2. \A q \in ValuesOf(a, a[k], k + 1) : q <= k + 1
    BY DEF ValuesOf
  <2> QED BY <2>1, <2>2 DEF LastValue
<1>4. \A p \in 1 .. k + 1 : p \in 1 .. k - 1 \/ p = k \/ p = k + 1
  OBVIOUS
<1>5. \A p \in 1 .. k - 1 : p \in 1 .. k + 1
  OBVIOUS
<1>6. ASSUME NEW o \in ValueOptions \ {a[k]} PROVE ValuesOf(a, o, k + 1) = ValuesOf(a, o, k - 1)
  <2>1. \A p \in 2 .. k + 1 : p \in 2 .. k - 1 \/ p = k \/ p = k + 1
    OBVIOUS
  <2>2. \A p \in 2 .. k - 1 : p \in 2 .. k + 1
    OBVIOUS
  <2>3. a[(k + 1) - 1] # o
    BY <1>6
  <2> QED BY <2>1, <2>2, <2>3 DEF ValuesOf
<1>7. a[k] \notin FlagOptions /\ a[k] \notin Algorithms /\ ~ Positional(a[k])
  BY OptionFacts DEF Positional
<1>8. \A o \in FlagOptions : FlagGiven(a, o, k + 1) <=> FlagGiven(a, o, k - 1)
  BY <1>1, <1>4, <1>5, <1>7 DEF FlagGiven
<1>9. SinglesUpTo(a, k + 1) = SinglesUpTo(a, k - 1)
  BY <1>1, <1>4, <1>5, <1>7 DEF SinglesUpTo
<1>10. AlgorithmsUpTo(a, k + 1) = AlgorithmsUpTo(a, k - 1)
  BY <1>1, <1>4, <1>5, <1>7 DEF AlgorithmsUpTo
<1> QED BY <1>2, <1>3, <1>6, <1>8, <1>9, <1>10 DEF LastValue

\* Any other argument.
LEMMA PassOther ==
  ASSUME NEW a, NEW k \in Nat \ {0}, ~ ValueIn(a, k), a[k] \notin ValueOptions
  PROVE  /\ ~ ValueIn(a, k + 1)
         /\ \A o \in ValueOptions : \A v : LastValue(a, o, k - 1, v) => LastValue(a, o, k, v)
         /\ \A o \in FlagOptions : FlagGiven(a, o, k) <=> FlagGiven(a, o, k - 1) \/ a[k] = o
         /\ SinglesUpTo(a, k) =
              SinglesUpTo(a, k - 1) \cup IF Positional(a[k]) THEN {k} ELSE {}
         /\ AlgorithmsUpTo(a, k) =
              AlgorithmsUpTo(a, k - 1) \cup IF a[k] \in Algorithms THEN {k} ELSE {}
<1>1. ~ ValueIn(a, k + 1)
  BY NextIsValue
<1>2. \A p \in 1 .. k : p \in 1 .. k - 1 \/ p = k
  OBVIOUS
<1>3. k \in 1 .. k /\ \A p \in 1 .. k - 1 : p \in 1 .. k
  OBVIOUS
<1>4. ASSUME NEW o \in ValueOptions PROVE ValuesOf(a, o, k) = ValuesOf(a, o, k - 1)
  <2>1. \A p \in 2 .. k : p \in 2 .. k - 1 \/ p = k
    OBVIOUS
  <2>2. \A p \in 2 .. k - 1 : p \in 2 .. k
    OBVIOUS
  <2> QED BY <2>1, <2>2 DEF ValuesOf
<1>5. \A o \in FlagOptions : FlagGiven(a, o, k) <=> FlagGiven(a, o, k - 1) \/ a[k] = o
  BY <1>2, <1>3 DEF FlagGiven
<1>6. SinglesUpTo(a, k) = SinglesUpTo(a, k - 1) \cup IF Positional(a[k]) THEN {k} ELSE {}
  BY <1>2, <1>3 DEF SinglesUpTo
<1>7. AlgorithmsUpTo(a, k) =
        AlgorithmsUpTo(a, k - 1) \cup IF a[k] \in Algorithms THEN {k} ELSE {}
  BY <1>2, <1>3 DEF AlgorithmsUpTo
<1> QED BY <1>1, <1>4, <1>5, <1>6, <1>7 DEF LastValue
-----------------------------------------------------------------------------
\* What the constructor has made of the first n arguments.
Parsed(a, n) ==
  /\ \A o \in ValueOptions : LastValue(a, o, n, modes[Valued[o]])
  /\ \A o \in FlagOptions : modes[Flags[o]] # NoWord <=> FlagGiven(a, o, n)
  /\ LastAsked(a, n, modes["Algorithm"])
  /\ ShortArgs(a, n, short1, short2)

\* argc of the short form.
ShortLength(a) == Len(a) + 1 \in 2 .. Cardinality(Keys) - 1

\* What makes a command line one that is refused.
Refusable(a) ==
  \/ ValueIn(a, Len(a) + 1)
  \/ \E p, q \in ShortsUpTo(a, Len(a)), r \in SinglesUpTo(a, Len(a)) : p < q /\ q < r
  \/ LastValue(a, "-i", Len(a), NoWord) /\ (ShortsUpTo(a, Len(a)) = {} \/ ~ ShortLength(a))

\* The modes of a command line that is not, when all is parsed.
Chosen(a) ==
  /\ ~ ValueIn(a, Len(a) + 1)
  /\ LastValue(a, "-o", Len(a), modes["OutFile"])
  /\ LastValue(a, "-sw", Len(a), modes["SubstringWidth"])
  /\ \A o \in FlagOptions : modes[Flags[o]] # NoWord <=> FlagGiven(a, o, Len(a))
  /\ LastAsked(a, Len(a), modes["Algorithm"])
  /\ ShortArgs(a, Len(a), short1, short2) /\ shortInput \in BOOLEAN
  /\ \E x :
       /\ LastValue(a, "-i", Len(a), x) /\ (shortInput <=> x = NoWord)
       /\ x # NoWord => modes["InFile"] = x /\ LastValue(a, "-f", Len(a), modes["Infix"])
       /\ x = NoWord => /\ modes["InFile"] = short1 /\ short1 # NoWord /\ modes["Infix"] = short2
                    /\ ShortLength(a)

Verdict ==
  outcome = IF modes["Infix"] = NoWord THEN "create" ELSE IF shortInput THEN "search" ELSE "find"

CommandOK(a) ==
  \/ /\ pc = "parse" /\ outcome = "none"
     /\ i \in 1 .. Len(a) + 1 /\ ~ ValueIn(a, i) /\ Parsed(a, i - 1)
  \/ pc = "dispatch" /\ outcome = "none" /\ Chosen(a)
  \/ pc = "ended" /\ outcome = "refused" /\ Refusable(a)
  \/ pc = "ended" /\ Chosen(a) /\ Verdict

ModesInv ==
  /\ modes = [key \in Keys |-> modes[key]]
  /\ pc = "none" => /\ i = 1 /\ modes = Default
                    /\ short1 = NoWord /\ short2 = NoWord /\ outcome = "none"
  /\ pc # "none" => args \in ArgLists /\ CommandOK(args)

-----------------------------------------------------------------------------
\* Where the constructor is while it parses.
LEMMA Parsing ==
  ASSUME ModesInv, pc = "parse"
  PROVE  /\ outcome = "none" /\ i \in Nat \ {0} /\ i <= Len(args) + 1
         /\ ~ ValueIn(args, i) /\ Parsed(args, i - 1)
         /\ modes = [key \in Keys |-> modes[key]]
         /\ args \in ArgLists /\ Len(args) \in Nat
<1>1. args \in ArgLists /\ CommandOK(args) /\ modes = [key \in Keys |-> modes[key]]
  BY DEF ModesInv
<1>2. Len(args) \in Nat
  BY <1>1, ArgListsAssumption
<1> QED BY <1>1, <1>2 DEF CommandOK

\* An option with its value, or without one at the end of the command line.
LEMMA TakeValueInv ==
  ASSUME ModesInv, TakeValue
  PROVE  ModesInv'
<1>1. PICK a : a = args /\ a = args'
  BY DEF TakeValue
<1>2. PICK k \in Nat \ {0} : k = i
  BY Parsing DEF TakeValue
<1>3. /\ pc = "parse" /\ k <= Len(a) /\ a[k] \in ValueOptions /\ i' = k + 2
      /\ short1' = short1 /\ short2' = short2
  BY <1>1, <1>2, OptionFacts DEF TakeValue, BehindValue
<1>4. /\ ~ ValueIn(a, k) /\ Parsed(a, k - 1) /\ modes = [key \in Keys |-> modes[key]]
      /\ args \in ArgLists /\ Len(a) \in Nat /\ outcome = "none"
  BY <1>1, <1>2, <1>3, Parsing
<1>5. CASE k + 1 <= Len(a)
  <2>1. PICK key : key = Valued[a[k]]
    OBVIOUS
  <2>2. modes' = [modes EXCEPT ![key] = a[k + 1]] /\ pc' = pc /\ outcome' = outcome
    BY <1>1, <1>2, <1>5, <2>1 DEF TakeValue
  <2>3. /\ key \in Keys /\ modes' = [x \in Keys |-> modes'[x]]
        /\ modes'[key] = a[k + 1] /\ \A x \in Keys : x # key => modes'[x] = modes[x]
    BY <1>3, <1>4, <2>1, <2>2, OptionFacts
  <2>4. /\ \A o \in ValueOptions \ {a[k]} : modes'[Valued[o]] = modes[Valued[o]]
        /\ \A o \in FlagOptions : modes'[Flags[o]] = modes[Flags[o]]
        /\ modes'[Valued[a[k]]] = a[k + 1] /\ modes'["Algorithm"] = modes["Algorithm"]
    BY <1>3, <2>1, <2>3, OptionFacts
  <2>5. Parsed(a, k + 1)'
    <3>1. \A o \in ValueOptions : LastValue(a, o, k + 1, modes'[Valued[o]])
      <4> SUFFICES ASSUME NEW o \in ValueOptions
                   PROVE  LastValue(a, o, k + 1, modes'[Valued[o]])
        OBVIOUS
      <4>1. CASE o = a[k]
        BY <1>3, <1>4, <2>4, <4>1, PassValue
      <4>2. CASE o # a[k]
        <5>1. LastValue(a, o, k - 1, modes[Valued[o]])
          BY <1>4 DEF Parsed
        <5> QED BY <1>3, <1>4, <2>4, <4>2, <5>1, PassValue
      <4> QED BY <4>1, <4>2
    <3>2. \A o \in FlagOptions : modes'[Flags[o]] # NoWord <=> FlagGiven(a, o, k + 1)
      BY <1>3, <1>4, <2>4, PassValue DEF Parsed
    <3>3. ShortArgs(a, k + 1, short1', short2')
      <4>1. SinglesUpTo(a, k + 1) = SinglesUpTo(a, k - 1)
        BY <1>3, <1>4, PassValue
      <4>2. ShortsUpTo(a, k + 1) = ShortsUpTo(a, k - 1)
        BY <4>1 DEF ShortsUpTo
      <4> QED BY <1>3, <1>4, <4>1, <4>2 DEF Parsed, ShortArgs
    <3>4. LastAsked(a, k + 1, modes'["Algorithm"])
      <4>1. AlgorithmsUpTo(a, k + 1) = AlgorithmsUpTo(a, k - 1)
        BY <1>3, <1>4, PassValue
      <4> QED BY <1>4, <2>4, <4>1 DEF Parsed, LastAsked
    <3> QED BY <3>1, <3>2, <3>3, <3>4 DEF Parsed
  <2>6. i' \in 1 .. Len(a) + 1 /\ ~ ValueIn(a, i') /\ i' - 1 = k + 1
    BY <1>3, <1>4, <1>5, PassValue
  <2>7. CommandOK(a)'
    BY <1>3, <1>4, <2>2, <2>5, <2>6 DEF CommandOK
  <2> QED BY <1>1, <1>3, <1>4, <2>2, <2>3, <2>7 DEF ModesInv
<1>6. CASE ~ (k + 1 <= Len(a))
  <2>1. pc' = "ended" /\ outcome' = "refused" /\ modes' = modes
    BY <1>1, <1>2, <1>6 DEF TakeValue, Exit
  <2>2. k = Len(a) /\ ValueIn(a, k + 1)
    BY <1>3, <1>4, <1>6, NextIsValue
  <2>3. CommandOK(a)'
    BY <2>1, <2>2 DEF CommandOK, Refusable
  <2> QED BY <1>1, <1>4, <2>1, <2>3 DEF ModesInv
<1> QED BY <1>5, <1>6

\* One argument more that stands alone.
LEMMA ParsedOther ==
  ASSUME NEW a, NEW k \in Nat \ {0}, ~ ValueIn(a, k), a[k] \notin ValueOptions, Parsed(a, k - 1),
         \A o \in ValueOptions : modes'[Valued[o]] = modes[Valued[o]],
         \A o \in FlagOptions : modes'[Flags[o]] # NoWord <=> modes[Flags[o]] # NoWord \/ a[k] = o,
         modes'["Algorithm"] = IF a[k] \in Algorithms THEN a[k] ELSE modes["Algorithm"],
         ShortArgs(a, k, short1', short2')
  PROVE  Parsed(a, k)'
<1>1. \A o \in ValueOptions : LastValue(a, o, k, modes'[Valued[o]])
  BY PassOther DEF Parsed
<1>2. \A o \in FlagOptions : modes'[Flags[o]] # NoWord <=> FlagGiven(a, o, k)
  BY PassOther DEF Parsed
<1>3. LastAsked(a, k, modes'["Algorithm"])
  <2>1. AlgorithmsUpTo(a, k) =
          AlgorithmsUpTo(a, k - 1) \cup IF a[k] \in Algorithms THEN {k} ELSE {}
    BY PassOther
  <2>2. \A q \in AlgorithmsUpTo(a, k - 1) : q <= k
    BY DEF AlgorithmsUpTo
  <2>3. CASE a[k] \in Algorithms
    <3>1. k \in AlgorithmsUpTo(a, k) /\ \A q \in AlgorithmsUpTo(a, k) : q <= k
      BY <2>1, <2>2, <2>3
    <3> QED BY <2>3, <3>1 DEF LastAsked
  <2>4. CASE a[k] \notin Algorithms
    <3>1. AlgorithmsUpTo(a, k) = AlgorithmsUpTo(a, k - 1)
      BY <2>1, <2>4
    <3> QED BY <2>4, <3>1 DEF Parsed, LastAsked
  <2> QED BY <2>3, <2>4
<1> QED BY <1>1, <1>2, <1>3 DEF Parsed

\* An algorithm or a flag.
LEMMA TakeFlagInv ==
  ASSUME ModesInv, TakeFlag
  PROVE  ModesInv'
<1>1. PICK a : a = args /\ a = args'
  BY DEF TakeFlag
<1>2. PICK k \in Nat \ {0} : k = i
  BY Parsing DEF TakeFlag
<1>3. /\ pc = "parse" /\ pc' = pc /\ k <= Len(a) /\ i' = k + 1 /\ outcome' = outcome
      /\ short1' = short1 /\ short2' = short2
  BY <1>1, <1>2 DEF TakeFlag
<1>4. /\ ~ ValueIn(a, k) /\ Parsed(a, k - 1) /\ modes = [key \in Keys |-> modes[key]]
      /\ args \in ArgLists /\ Len(a) \in Nat /\ outcome = "none"
  BY <1>1, <1>2, <1>3, Parsing
<1>5. \/ a[k] \in Algorithms /\ modes' = [modes EXCEPT !["Algorithm"] = a[k]]
      \/ a[k] \in FlagOptions /\ modes' = [modes EXCEPT ![Flags[a[k]]] = " "]
  BY <1>1, <1>2, OptionFacts, Zenon DEF TakeFlag
<1>6. a[k] \notin ValueOptions /\ ~ Positional(a[k])
  <2>1. a[k] \in Algorithms \cup FlagOptions
    BY <1>5, Zenon
  <2> QED BY <2>1, OptionFacts DEF Positional
<1>7. PICK key \in Keys :
        /\ modes' = [x \in Keys |-> modes'[x]]
        /\ \A x \in Keys : x # key => modes'[x] = modes[x]
        /\ \/ a[k] \in Algorithms /\ key = "Algorithm" /\ modes'[key] = a[k]
           \/ a[k] \in FlagOptions /\ key = Flags[a[k]] /\ modes'[key] # NoWord
  <2>1. CASE a[k] \in Algorithms /\ modes' = [modes EXCEPT !["Algorithm"] = a[k]]
    <3>1. "Algorithm" \in Keys
      BY OptionFacts
    <3>2. /\ modes' = [x \in Keys |-> modes'[x]]
          /\ \A x \in Keys : x # "Algorithm" => modes'[x] = modes[x]
          /\ modes'["Algorithm"] = a[k]
      BY <1>4, <2>1, <3>1
    <3> QED BY <2>1, <3>1, <3>2
  <2>2. CASE a[k] \in FlagOptions /\ modes' = [modes EXCEPT ![Flags[a[k]]] = " "]
    <3>1. PICK w : w = " "
      BY Zenon
    <3>2. w # NoWord
      BY <3>1, Zenon DEF NoWord
    <3>3. PICK key : key = Flags[a[k]]
      OBVIOUS
    <3>4. modes' = [modes EXCEPT ![key] = w]
      BY <2>2, <3>1, <3>3, Zenon
    <3>5. a[k] \in FlagOptions
      BY <2>2, Zenon
    <3>6. key \in Keys
      BY <3>3, <3>5, OptionFacts
    <3>7. /\ modes' = [x \in Keys |-> modes'[x]] /\ modes'[key] = w
          /\ \A x \in Keys : x # key => modes'[x] = modes[x]
      BY ONLY <1>4, <3>4, <3>6
    <3> QED BY ONLY <3>2, <3>3, <3>5, <3>6, <3>7
  <2> QED BY <1>5, <2>1, <2>2, Zenon
<1>8. \A o \in ValueOptions : modes'[Valued[o]] = modes[Valued[o]]
  BY <1>7, OptionFacts
<1>9. \A o \in FlagOptions : modes'[Flags[o]] # NoWord <=> modes[Flags[o]] # NoWord \/ a[k] = o
  BY <1>7, OptionFacts
<1>10. ShortArgs(a, k, short1', short2')
  <2>1. SinglesUpTo(a, k) = SinglesUpTo(a, k - 1)
    <3>1. SinglesUpTo(a, k) =
            SinglesUpTo(a, k - 1) \cup IF Positional(a[k]) THEN {k} ELSE {}
      BY <1>4, <1>6, PassOther
    <3> QED BY <1>6, <3>1
  <2>2. ShortsUpTo(a, k) = ShortsUpTo(a, k - 1)
    BY <2>1 DEF ShortsUpTo
  <2> QED BY <1>3, <1>4, <2>1, <2>2 DEF Parsed, ShortArgs
<1>11. Parsed(a, k)'
  <2>1. modes'["Algorithm"] = IF a[k] \in Algorithms THEN a[k] ELSE modes["Algorithm"]
    BY <1>7, OptionFacts
  <2> QED BY <1>4, <1>6, <1>8, <1>9, <1>10, <2>1, ParsedOther
<1>12. i' \in 1 .. Len(a) + 1 /\ ~ ValueIn(a, i') /\ i' - 1 = k
  BY <1>3, <1>4, <1>6, PassOther
<1>13. CommandOK(a)'
  BY <1>3, <1>4, <1>11, <1>12 DEF CommandOK
<1> QED BY <1>1, <1>3, <1>4, <1>7, <1>13 DEF ModesInv

\* A short argument, the first or the second; a third is refused.
LEMMA TakePositionalInv ==
  ASSUME ModesInv, TakePositional
  PROVE  ModesInv'
<1>1. PICK a : a = args /\ a = args'
  BY DEF TakePositional
<1>2. PICK k \in Nat \ {0} : k = i
  BY Parsing DEF TakePositional
<1>3. /\ pc = "parse" /\ k <= Len(a) /\ i' = k + 1 /\ modes' = modes
      /\ Positional(a[k])
  BY <1>1, <1>2 DEF TakePositional
<1>4. /\ ~ ValueIn(a, k) /\ Parsed(a, k - 1) /\ modes = [key \in Keys |-> modes[key]]
      /\ args \in ArgLists /\ Len(a) \in Nat /\ outcome = "none"
  BY <1>1, <1>2, <1>3, Parsing
<1>5. a[k] \notin ValueOptions /\ a[k] \notin FlagOptions /\ a[k] \notin Algorithms
  BY <1>3, OptionFacts DEF Positional
<1>6. /\ i' \in 1 .. Len(a) + 1 /\ ~ ValueIn(a, i') /\ i' - 1 = k
      /\ SinglesUpTo(a, k) = SinglesUpTo(a, k - 1) \cup {k}
      /\ ShortsUpTo(a, k) = ShortsUpTo(a, k - 1) \cup IF a[k] # NoWord THEN {k} ELSE {}
      /\ \A p \in SinglesUpTo(a, k - 1) : p \in Nat /\ p < k
      /\ ShortsUpTo(a, k - 1) \subseteq SinglesUpTo(a, k - 1)
      /\ ShortArgs(a, k - 1, short1, short2)
  <2>1. \A p \in SinglesUpTo(a, k - 1) : p \in Nat /\ p < k
    BY DEF SinglesUpTo
  <2>2. SinglesUpTo(a, k) = SinglesUpTo(a, k - 1) \cup {k}
    BY <1>3, <1>4, <1>5, PassOther
  <2>3. /\ ShortsUpTo(a, k) = ShortsUpTo(a, k - 1) \cup IF a[k] # NoWord THEN {k} ELSE {}
        /\ ShortsUpTo(a, k - 1) \subseteq SinglesUpTo(a, k - 1)
    BY <2>2 DEF ShortsUpTo
  <2>4. ShortArgs(a, k - 1, short1, short2)
    BY <1>4 DEF Parsed
  <2>5. i' \in 1 .. Len(a) + 1 /\ ~ ValueIn(a, i') /\ i' - 1 = k
    BY <1>3, <1>4, <1>5, PassOther
  <2> QED BY <2>1, <2>2, <2>3, <2>4, <2>5
<1>7. ASSUME pc' = pc, outcome' = outcome, ShortArgs(a, k, short1', short2')
      PROVE  ModesInv'
  <2>1. Parsed(a, k)'
    BY <1>3, <1>4, <1>5, <1>7, ParsedOther
  <2>2. CommandOK(a)'
    BY <1>3, <1>4, <1>6, <1>7, <2>1 DEF CommandOK
  <2> QED BY <1>1, <1>3, <1>4, <1>7, <2>2 DEF ModesInv
<1>8. CASE short1 = NoWord /\ short1' = a[k] /\ UNCHANGED <<pc, outcome, short2>>
  BY <1>6, <1>7, <1>8 DEF ShortArgs
<1>9. CASE short1 # NoWord /\ short2 = NoWord /\ short2' = a[k] /\ UNCHANGED <<pc, outcome, short1>>
  <2>1. PICK p \in Nat : ShortsUpTo(a, k - 1) = {p} /\ a[p] = short1
    BY <1>6, <1>9 DEF ShortArgs
  <2>2. p < k
    BY <1>6, <2>1
  <2>3. CASE a[k] = NoWord
    <3>1. ShortsUpTo(a, k) = {p} /\ short1' = short1 /\ short2' = NoWord
      BY <1>6, <1>9, <2>1, <2>3
    <3>2. ShortArgs(a, k, short1', short2')
      BY <1>9, <2>1, <3>1 DEF ShortArgs
    <3> QED BY <1>7, <1>9, <3>2
  <2>4. CASE a[k] # NoWord
    <3>1. ShortsUpTo(a, k) = {p, k}
      BY <1>6, <2>1, <2>4
    <3>2. \A r \in SinglesUpTo(a, k) : r <= k
      BY <1>6
    <3>3. short1' = short1 /\ short2' = a[k]
      BY <1>9
    <3>4. \E x, q \in Nat : /\ x < q /\ ShortsUpTo(a, k) = {x, q} /\ a[x] = short1 /\ a[q] = a[k]
                           /\ \A r \in SinglesUpTo(a, k) : r <= q
      BY <2>1, <2>2, <3>1, <3>2
    <3>5. ShortArgs(a, k, short1', short2')
      BY <1>9, <2>4, <3>3, <3>4 DEF ShortArgs
    <3> QED BY <1>7, <1>9, <3>5
  <2> QED BY <2>3, <2>4
<1>10. CASE short1 # NoWord /\ short2 # NoWord /\ Exit /\ UNCHANGED <<short1, short2>>
  <2>1. PICK p, q \in Nat : p < q /\ ShortsUpTo(a, k - 1) = {p, q}
    BY <1>6, <1>10 DEF ShortArgs
  <2>2. \A r \in SinglesUpTo(a, k) : r \in SinglesUpTo(a, Len(a))
    BY <1>3, <1>4 DEF SinglesUpTo
  <2>3. \A r \in ShortsUpTo(a, k) : r \in ShortsUpTo(a, Len(a))
    BY <2>2 DEF ShortsUpTo
  <2>4. q < k /\ k \in SinglesUpTo(a, Len(a))
    BY <1>6, <2>1, <2>2
  <2>5. p \in ShortsUpTo(a, Len(a)) /\ q \in ShortsUpTo(a, Len(a))
    BY <1>6, <2>1, <2>3
  <2>6. Refusable(a)
    BY <2>1, <2>4, <2>5 DEF Refusable
  <2>7. pc' = "ended" /\ outcome' = "refused"
    BY <1>10 DEF Exit
  <2>8. CommandOK(a)'
    BY <2>6, <2>7 DEF CommandOK, Refusable
  <2> QED BY <1>1, <1>3, <1>4, <2>7, <2>8 DEF ModesInv
<1> QED BY <1>1, <1>2, <1>8, <1>9, <1>10, Zenon DEF TakePositional, NoWord

\* All is parsed: what the modes are that go to main, or why there are none.
LEMMA CheckShortInputInv ==
  ASSUME ModesInv, CheckShortInput
  PROVE  ModesInv'
<1>1. PICK a : a = args /\ a = args'
  BY DEF CheckShortInput
<1>2. /\ pc = "parse" /\ i > Len(a) /\ short1' = short1 /\ short2' = short2
      /\ shortInput' = (modes["InFile"] = NoWord)
      /\ \/ modes["InFile"] # NoWord /\ pc' = "dispatch" /\ modes' = modes /\ outcome' = outcome
         \/ /\ modes["InFile"] = NoWord
            /\ IF ShortLength(a) /\ short1 # NoWord
                 THEN modes' = ShortModes /\ pc' = "dispatch" /\ outcome' = outcome
                 ELSE Exit /\ modes' = modes
  BY <1>1, Zenon DEF CheckShortInput, NoWord, ShortLength
<1>3. /\ i = Len(a) + 1 /\ i - 1 = Len(a) /\ ~ ValueIn(a, Len(a) + 1) /\ Parsed(a, Len(a))
      /\ modes = [key \in Keys |-> modes[key]]
      /\ args \in ArgLists /\ Len(a) \in Nat /\ outcome = "none"
  <2>1. /\ outcome = "none" /\ i \in Nat \ {0} /\ i <= Len(a) + 1 /\ ~ ValueIn(a, i)
        /\ Parsed(a, i - 1) /\ modes = [key \in Keys |-> modes[key]]
        /\ args \in ArgLists /\ Len(a) \in Nat
    BY <1>1, <1>2, Parsing
  <2>2. i = Len(a) + 1 /\ i - 1 = Len(a)
    BY <1>2, <2>1
  <2> QED BY <2>1, <2>2
<1>4. /\ LastValue(a, "-o", Len(a), modes["OutFile"]) /\ LastValue(a, "-i", Len(a), modes["InFile"])
      /\ LastValue(a, "-f", Len(a), modes["Infix"])
      /\ LastValue(a, "-sw", Len(a), modes["SubstringWidth"])
  <2>1. /\ Valued["-o"] = "OutFile" /\ Valued["-i"] = "InFile"
        /\ Valued["-f"] = "Infix" /\ Valued["-sw"] = "SubstringWidth"
    BY DEF Valued
  <2>2. \A o \in ValueOptions : LastValue(a, o, Len(a), modes[Valued[o]])
    BY <1>3 DEF Parsed
  <2> QED BY <2>1, <2>2 DEF ValueOptions
<1>5. /\ \A o \in FlagOptions : modes[Flags[o]] # NoWord <=> FlagGiven(a, o, Len(a))
      /\ LastAsked(a, Len(a), modes["Algorithm"]) /\ ShortArgs(a, Len(a), short1, short2)
  BY <1>3 DEF Parsed
<1>6. ASSUME pc' = "dispatch", outcome' = outcome, Chosen(a)',
             modes' = [key \in Keys |-> modes'[key]]
      PROVE  ModesInv'
  BY <1>1, <1>3, <1>6 DEF ModesInv, CommandOK
<1>7. CASE modes["InFile"] # NoWord
  <2>1. PICK x : x = modes["InFile"]
    OBVIOUS
  <2>2. x # NoWord /\ modes' = modes /\ ~ shortInput' /\ pc' = "dispatch" /\ outcome' = outcome
    BY <1>2, <1>7, <2>1
  <2>3. Chosen(a)'
    BY <1>2, <1>3, <1>4, <1>5, <2>1, <2>2 DEF Chosen
  <2> QED BY <1>3, <1>6, <2>2, <2>3
<1>8. CASE modes["InFile"] = NoWord /\ ShortLength(a) /\ short1 # NoWord
  <2>1. modes' = ShortModes /\ shortInput' /\ pc' = "dispatch" /\ outcome' = outcome
    BY <1>2, <1>8
  <2>2. {"InFile", "Infix", "OutFile", "SubstringWidth"} \subseteq Keys
    BY DEF Keys, Valued
  <2>3. modes' = [modes EXCEPT !["InFile"] = short1, !["Infix"] = short2]
    BY <2>1 DEF ShortModes
  <2>4. /\ modes'["InFile"] = short1 /\ modes'["Infix"] = short2
        /\ \A key \in Keys : key # "InFile" /\ key # "Infix" => modes'[key] = modes[key]
        /\ modes' = [key \in Keys |-> modes'[key]]
    BY <1>3, <2>2, <2>3
  <2>5. /\ modes'["OutFile"] = modes["OutFile"] /\ modes'["Algorithm"] = modes["Algorithm"]
        /\ modes'["SubstringWidth"] = modes["SubstringWidth"]
    BY <2>2, <2>4, OptionFacts
  <2>6. \A o \in FlagOptions : modes'[Flags[o]] = modes[Flags[o]]
    <3>1. Valued["-i"] = "InFile" /\ Valued["-f"] = "Infix"
      BY DEF Valued
    <3>2. "-i" \in ValueOptions /\ "-f" \in ValueOptions
      BY DEF ValueOptions
    <3> QED BY <2>4, <3>1, <3>2, OptionFacts
  <2>7. \E x :
          /\ LastValue(a, "-i", Len(a), x) /\ (shortInput' <=> x = NoWord)
          /\ x # NoWord => modes'["InFile"] = x /\ LastValue(a, "-f", Len(a), modes'["Infix"])
          /\ x = NoWord => /\ modes'["InFile"] = short1' /\ short1' # NoWord
                           /\ modes'["Infix"] = short2' /\ ShortLength(a)
    <3>1. LastValue(a, "-i", Len(a), NoWord)
      BY <1>4, <1>8
    <3>2. short1' = short1 /\ short2' = short2
      BY <1>2
    <3> QED BY <1>8, <2>1, <2>4, <3>1, <3>2
  <2>8. Chosen(a)'
    BY <1>2, <1>3, <1>4, <1>5, <2>5, <2>6, <2>7 DEF Chosen
  <2> QED BY <1>6, <2>1, <2>4, <2>8
<1>9. CASE modes["InFile"] = NoWord /\ ~ (ShortLength(a) /\ short1 # NoWord)
  <2>1. pc' = "ended" /\ outcome' = "refused" /\ modes' = modes
    BY <1>2, <1>9 DEF Exit
  <2>2. short1 = NoWord => ShortsUpTo(a, Len(a)) = {}
    BY <1>5 DEF ShortArgs
  <2>3. LastValue(a, "-i", Len(a), NoWord)
    BY <1>4, <1>9
  <2>4. Refusable(a)
    BY <1>9, <2>2, <2>3 DEF Refusable
  <2>5. Refusable(a)'
    BY <2>4 DEF Refusable
  <2>6. CommandOK(a)'
    BY <2>1, <2>5 DEF CommandOK
  <2> QED BY <1>1, <1>3, <2>1, <2>6 DEF ModesInv
<1> QED BY <1>7, <1>8, <1>9

\* What main and init make of the modes: a command that gets here is not refused.
LEMMA DispatchInv ==
  ASSUME ModesInv, Dispatch
  PROVE  ModesInv'
<1>1. PICK a : a = args /\ a = args'
  BY DEF Dispatch
<1>2. /\ pc = "dispatch" /\ pc' = "ended" /\ modes' = modes
      /\ short1' = short1 /\ short2' = short2 /\ shortInput' = shortInput
      /\ outcome' = IF shortInput \/ modes["Infix"] = NoWord
                      THEN IF modes["Infix"] = NoWord THEN "create" ELSE "search"
                      ELSE IF modes["InFile"] = NoWord THEN "refused" ELSE "find"
  BY Zenon DEF Dispatch, NoWord
<1>3. Chosen(a) /\ args \in ArgLists /\ modes = [key \in Keys |-> modes[key]]
  BY <1>1, <1>2 DEF ModesInv, CommandOK
<1>4. ~ shortInput => modes["InFile"] # NoWord
  BY <1>3 DEF Chosen
<1>5. Chosen(a)' /\ Verdict'
  <2>1. Chosen(a)'
    BY <1>2, <1>3 DEF Chosen
  <2>2. Verdict'
    BY <1>2, <1>4 DEF Verdict
  <2> QED BY <2>1, <2>2
<1>6. CommandOK(a)'
  BY <1>2, <1>5 DEF CommandOK
<1> QED BY <1>1, <1>2, <1>3, <1>6 DEF ModesInv

-----------------------------------------------------------------------------
\* A process starts with nothing parsed.
LEMMA NothingParsed ==
  ASSUME NEW a \in ArgLists
  PROVE  /\ \A o \in ValueOptions : LastValue(a, o, 0, Default[Valued[o]])
         /\ \A o \in FlagOptions : Default[Flags[o]] = NoWord /\ ~ FlagGiven(a, o, 0)
         /\ LastAsked(a, 0, Default["Algorithm"]) /\ ShortArgs(a, 0, NoWord, NoWord)
         /\ 1 \in 1 .. Len(a) + 1 /\ ~ ValueIn(a, 1) /\ Default = [key \in Keys |-> Default[key]]
<1>1. Default = [key \in Keys |-> Default[key]]
  BY Zenon DEF Default
<1>2. 1 \in 1 .. Len(a) + 1 /\ ~ ValueIn(a, 1)
  BY ArgListsAssumption DEF ValueIn
<1>3. \A o \in ValueOptions : LastValue(a, o, 0, Default[Valued[o]])
  BY DEF LastValue, ValuesOf
<1>4. \A o \in FlagOptions : Default[Flags[o]] = NoWord
  <2>1. /\ Flags["-tc"] = "TryCompression" /\ Flags["-lcp"] = "useLCP"
        /\ Flags["-fn"] = "FilterNewline"
    BY DEF Flags
  <2>2. {"TryCompression", "useLCP", "FilterNewline"} \subseteq Keys
    BY <2>1, OptionFacts DEF FlagOptions
  <2>3. \A key \in {"TryCompression", "useLCP", "FilterNewline"} : Default[key] = NoWord
    BY <2>2, Zenon DEF Default, NoWord
  <2> QED BY <2>1, <2>3 DEF FlagOptions
<1>5. \A o \in FlagOptions : ~ FlagGiven(a, o, 0)
  BY DEF FlagGiven
<1>6. ShortArgs(a, 0, NoWord, NoWord)
  BY DEF ShortArgs, ShortsUpTo, SinglesUpTo
<1>7. LastAsked(a, 0, Default["Algorithm"])
  BY DEF LastAsked, AlgorithmsUpTo
<1> QED BY <1>1, <1>2, <1>3, <1>4, <1>5, <1>6, <1>7

\* Other steps have nothing to do with the command line.
LEMMA ElsewhereInv ==
  ASSUME ModesInv, UNCHANGED <<args, pc, i, modes, short1, short2, shortInput, outcome>>
  PROVE  ModesInv'
<1>1. /\ args' = args /\ pc' = pc /\ i' = i /\ modes' = modes /\ short1' = short1
      /\ short2' = short2 /\ shortInput' = shortInput /\ outcome' = outcome
  OBVIOUS
<1>2. \A a, n : Parsed(a, n)' <=> Parsed(a, n)
  BY <1>1 DEF Parsed
<1>3. \A a : Chosen(a)' <=> Chosen(a)
  BY <1>1 DEF Chosen
<1>4. Verdict' <=> Verdict
  BY <1>1 DEF Verdict
<1>5. \A a : CommandOK(a)' <=> CommandOK(a)
  BY <1>1, <1>2, <1>3, <1>4 DEF CommandOK
<1> QED BY <1>1, <1>5 DEF ModesInv

\* One argument, or what comes after the last one.
LEMMA ParseInv ==
  ModesInv /\ (TakeValue \/ TakeFlag \/ TakePositional \/ CheckShortInput \/ Dispatch) => ModesInv'
BY TakeValueInv, TakeFlagInv, TakePositionalInv, CheckShortInputInv, DispatchInv

\* ModesInv holds in every state of the command line on its own.
LEMMA ModesInductive == Spec => []ModesInv
<1>1. Init => ModesInv
  <2> SUFFICES ASSUME Init PROVE ModesInv
    OBVIOUS
  <2>1. /\ args \in ArgLists /\ pc = "parse" /\ i = 1 /\ modes = Default
        /\ short1 = NoWord /\ short2 = NoWord /\ outcome = "none"
    BY Zenon DEF Init, NoWord
  <2>2. PICK a \in ArgLists : a = args
    BY <2>1
  <2>3. CommandOK(a)
    <3>1. Parsed(a, 0)
      BY <2>1, NothingParsed DEF Parsed
    <3> QED BY <2>1, <3>1, NothingParsed DEF CommandOK
  <2> QED BY <2>1, <2>2, <2>3, NothingParsed DEF ModesInv
<1>2. ModesInv /\ [Next]_vars => ModesInv'
  <2> SUFFICES ASSUME ModesInv, [Next]_vars PROVE ModesInv'
    OBVIOUS
  <2>1. CASE Done \/ UNCHANGED vars
    <3>1. UNCHANGED <<args, pc, i, modes, short1, short2, shortInput, outcome>>
      BY <2>1 DEF Done, vars
    <3> QED BY <3>1, ElsewhereInv
  <2> QED BY <2>1, ParseInv DEF Next
<1> QED BY <1>1, <1>2, PTL DEF Spec

\* In the program there is a command line while a command runs.
ProcessInv ==
  /\ ModesInv
  /\ command = Idle <=> pc = "none"
  /\ command # Idle => command \in Commands /\ args = command.args

\* ProcessInv holds in every state of the program.
LEMMA ProcessInductive == ProgramSpec => []ProcessInv
<1>1. ProgramInit => ProcessInv
  <2> SUFFICES ASSUME ProgramInit PROVE ProcessInv
    OBVIOUS
  <2>1. /\ command = Idle /\ pc = "none" /\ i = 1 /\ modes = Default
        /\ short1 = NoWord /\ short2 = NoWord /\ outcome = "none"
    BY Zenon DEF ProgramInit, NoWord
  <2>2. Default = [key \in Keys |-> Default[key]]
    BY Zenon DEF Default
  <2> QED BY <2>1, <2>2 DEF ProcessInv, ModesInv
<1>2. ProcessInv /\ [Begin \/ Step]_allVars => ProcessInv'
  <2> SUFFICES ASSUME ProcessInv, [Begin \/ Step]_allVars PROVE ProcessInv'
    OBVIOUS
  <2>1. CASE Begin
    <3>1. PICK a \in ArgLists : a = args' /\ a = command'.args
      BY <2>1, CommandsAssumption DEF Begin
    <3>2. /\ command' \in Commands /\ command' # Idle /\ pc' = "parse" /\ i' = 1
          /\ modes' = Default /\ short1' = NoWord /\ short2' = NoWord /\ outcome' = "none"
      BY <2>1, CommandsAssumption DEF Begin, ProcessInv, ModesInv
    <3>3. CommandOK(a)'
      <4>1. Parsed(a, 0)'
        BY <3>2, NothingParsed DEF Parsed
      <4> QED BY <3>2, <4>1, NothingParsed DEF CommandOK
    <3>4. ModesInv'
      BY <3>1, <3>2, <3>3, NothingParsed DEF ModesInv
    <3> QED BY <3>1, <3>2, <3>4 DEF ProcessInv
  <2>2. CASE Parse
    <3>1. /\ command' = command
          /\ TakeValue \/ TakeFlag \/ TakePositional \/ CheckShortInput \/ Dispatch
      BY <2>2 DEF Parse
    <3>2. args' = args /\ pc # "none" /\ pc' # "none"
      BY <3>1 DEF TakeValue, TakeFlag, TakePositional, CheckShortInput, Dispatch, Exit
    <3>3. ModesInv'
      BY <3>1, ParseInv DEF ProcessInv
    <3> QED BY <3>1, <3>2, <3>3 DEF ProcessInv
  <2>3. CASE End
    <3>1. /\ command' = Idle /\ pc' = "none" /\ i' = 1 /\ modes' = Default
          /\ short1' = NoWord /\ short2' = NoWord /\ outcome' = "none"
      BY <2>3, Zenon DEF End, NoWord
    <3>2. Default = [key \in Keys |-> Default[key]]
      BY Zenon DEF Default
    <3> QED BY <3>1, <3>2 DEF ProcessInv, ModesInv
  <2>4. CASE UNCHANGED <<command, modesVars>>
    BY <2>4, ElsewhereInv DEF modesVars, ProcessInv
  <2>5. CASE \/ OpenCorpus \/ ReadCorpus \/ InitSearches \/ InitWrites \/ Write
             \/ BeginFind \/ Fetch \/ FindReplies
    BY <2>4, <2>5 DEF OpenCorpus, ReadCorpus, InitSearches, InitWrites, Write, BeginFind, Fetch,
                      FindReplies
  <2> QED BY <2>1, <2>2, <2>3, <2>4, <2>5 DEF Step, allVars
<1> QED BY <1>1, <1>2, PTL DEF ProgramSpec
-----------------------------------------------------------------------------
\* The counter's values are the ones that Modes reads off backwards.
LEMMA ValuesAgree ==
  ASSUME NEW a, NEW p \in Nat \ {0}
  PROVE  IsValue(a, p) <=> ValueIn(a, p)
<1>1. ASSUME IsValue(a, p) PROVE ValueIn(a, p)
  <2>1. PICK m \in 1 .. p - 1 : /\ m % 2 = 1 /\ \A q \in p - m .. p - 1 : a[q] \in ValueOptions
                                /\ p - m = 1 \/ a[p - m - 1] \notin ValueOptions
    BY <1>1, OptionFacts DEF IsValue
  <2>2. p - m \in 1 .. p - 1 /\ p - (p - m) = m
    OBVIOUS
  <2>3. RunFrom(a, p - m, p)
    BY <2>1, <2>2 DEF RunFrom
  <2> QED BY <2>1, <2>2, <2>3 DEF ValueIn
<1>2. ASSUME ValueIn(a, p) PROVE IsValue(a, p)
  <2>1. PICK s \in 1 .. p - 1 : (p - s) % 2 = 1 /\ RunFrom(a, s, p)
    BY <1>2 DEF ValueIn
  <2>2. PICK m \in 1 .. p - 1 : m = p - s /\ p - m = s /\ p - m - 1 = s - 1
    OBVIOUS
  <2>3. /\ m % 2 = 1 /\ \A q \in p - m .. p - 1 : a[q] \in ValueOptions
        /\ p - m = 1 \/ a[p - m - 1] \notin ValueOptions
    BY <2>1, <2>2 DEF RunFrom
  <2> QED BY <2>3, OptionFacts DEF IsValue
<1> QED BY <1>1, <1>2

\* And so are the last values of the options, the flags and the short arguments.
LEMMA ReadingsAgree ==
  ASSUME NEW a, Len(a) \in Nat
  PROVE  /\ \A o \in ValueOptions : \A v : LastValue(a, o, Len(a), v) => v = LastOf(a, o)
         /\ \A o \in FlagOptions :
              FlagGiven(a, o, Len(a)) <=>
                \E p \in 1 .. Len(a) : a[p] = o /\ ~ IsValue(a, p)
         /\ \A v : LastAsked(a, Len(a), v) => v = LastAlgorithm(a)
         /\ ShortsUpTo(a, Len(a)) = Shorts(a)
<1>1. \A p \in 1 .. Len(a) : IsValue(a, p) <=> ValueIn(a, p)
  BY ValuesAgree
<1>2. ASSUME NEW o \in ValueOptions, NEW v, LastValue(a, o, Len(a), v) PROVE v = LastOf(a, o)
  <2> DEFINE T == {p \in 2 .. Len(a) : IsValue(a, p) /\ a[p - 1] = o}
  <2>1. T = ValuesOf(a, o, Len(a))
    BY <1>1 DEF ValuesOf
  <2>2. LastOf(a, o) = IF T = {} THEN Default[Valued[o]]
                                ELSE a[CHOOSE p \in T : \A q \in T : q <= p]
    BY DEF LastOf
  <2>3. ASSUME NEW p \in T, \A q \in T : q <= p
        PROVE  (CHOOSE x \in T : \A q \in T : q <= x) = p
    <3>1. \A x \in T : (\A q \in T : q <= x) => x = p
      BY <2>3
    <3> QED BY <2>3, <3>1
  <2>4. CASE T = {}
    BY <1>2, <2>1, <2>2, <2>4 DEF LastValue
  <2>5. CASE T # {}
    <3>1. PICK p \in T : (\A q \in T : q <= p) /\ v = a[p]
      BY <1>2, <2>1, <2>5 DEF LastValue
    <3>2. (CHOOSE x \in T : \A q \in T : q <= x) = p
      BY <2>3, <3>1
    <3> QED BY <2>2, <2>5, <3>1, <3>2
  <2> QED BY <2>4, <2>5
<1>3. \A o \in FlagOptions :
        FlagGiven(a, o, Len(a)) <=>
          \E p \in 1 .. Len(a) : a[p] = o /\ ~ IsValue(a, p)
  BY <1>1 DEF FlagGiven
<1>4. ShortsUpTo(a, Len(a)) = Shorts(a)
  <2>1. Shorts(a) = {p \in 1 .. Len(a) : ~ IsValue(a, p) /\ Positional(a[p]) /\ a[p] # NoWord}
    BY Zenon DEF Shorts, NoWord
  <2> QED BY <1>1, <2>1 DEF ShortsUpTo, SinglesUpTo
<1>5. ASSUME NEW v, LastAsked(a, Len(a), v) PROVE v = LastAlgorithm(a)
  <2> DEFINE T == {p \in 1 .. Len(a) : a[p] \in Algorithms /\ ~ IsValue(a, p)}
  <2>1. T = AlgorithmsUpTo(a, Len(a))
    BY <1>1 DEF AlgorithmsUpTo
  <2>2. LastAlgorithm(a) = IF T = {} THEN Default["Algorithm"]
                                     ELSE a[CHOOSE p \in T : \A q \in T : q <= p]
    BY DEF LastAlgorithm
  <2>3. CASE T = {}
    BY <1>5, <2>1, <2>2, <2>3 DEF LastAsked
  <2>4. CASE T # {}
    <3>1. PICK p \in T : (\A q \in T : q <= p) /\ v = a[p]
      BY <1>5, <2>1, <2>4 DEF LastAsked
    <3>2. \A x \in T : (\A q \in T : q <= x) => x = p
      BY <3>1
    <3>3. (CHOOSE x \in T : \A q \in T : q <= x) = p
      BY <3>1, <3>2
    <3> QED BY <2>2, <2>4, <3>1, <3>3
  <2> QED BY <2>3, <2>4
<1> QED BY <1>2, <1>3, <1>4, <1>5

\* A command line that is accepted is one that was chosen from.
LEMMA Accepted ==
  ASSUME ModesInv, outcome \notin {"none", "refused"}
  PROVE  Chosen(args) /\ Verdict /\ args \in ArgLists /\ Len(args) \in Nat
<1>1. pc # "none" /\ args \in ArgLists /\ CommandOK(args)
  BY DEF ModesInv
<1>2. Len(args) \in Nat
  BY <1>1, ArgListsAssumption
<1>3. Chosen(args) /\ Verdict
  BY <1>1 DEF CommandOK
<1> QED BY <1>1, <1>2, <1>3

\* Every argument of an accepted command line counts in one way, whatever the words are
\* and however many: the modes that the constructor has left, with its counter that two
\* places advance, are those of the last option of each kind that is no value itself, the
\* algorithm included; corpus and pattern are those of -i and -f or, without an -i, the two
\* short arguments in their order, and then -f does not count.
THEOREM EveryArgumentCountsOnce == (Spec \/ ProgramSpec) => []ArgumentsCountOnce
<1>1. ModesInv => ArgumentsCountOnce
  <2> SUFFICES ASSUME ModesInv, outcome \in {"create", "search", "find"}
               PROVE  ArgumentsCountOnce
    BY DEF ArgumentsCountOnce
  <2>1. PICK a : a = args
    OBVIOUS
  <2>2. Chosen(a) /\ Len(a) \in Nat
    BY <2>1, Accepted
  <2>3. PICK x :
          /\ LastValue(a, "-i", Len(a), x) /\ (shortInput <=> x = NoWord)
          /\ x # NoWord => modes["InFile"] = x /\ LastValue(a, "-f", Len(a), modes["Infix"])
          /\ x = NoWord => /\ modes["InFile"] = short1 /\ short1 # NoWord
                           /\ modes["Infix"] = short2
    BY <2>2 DEF Chosen
  <2>4. {"-o", "-i", "-f", "-sw"} \subseteq ValueOptions
    BY DEF ValueOptions
  <2>5. modes["OutFile"] = LastOf(args, "-o") /\ modes["SubstringWidth"] = LastOf(args, "-sw")
    BY <2>1, <2>2, <2>4, ReadingsAgree DEF Chosen
  <2>6. x = LastOf(args, "-i") /\ (x # NoWord => modes["Infix"] = LastOf(args, "-f"))
    BY <2>1, <2>2, <2>3, <2>4, ReadingsAgree
  <2>7. shortInput = (LastOf(args, "-i") = NoWord)
    BY <2>2, <2>3, <2>6 DEF Chosen
  <2>8. ~ shortInput => modes["InFile"] = LastOf(args, "-i") /\ modes["Infix"] = LastOf(args, "-f")
    BY <2>3, <2>6
  <2>9. \A o \in FlagOptions :
          modes[Flags[o]] # NoWord <=>
            \E p \in 1 .. Len(a) : a[p] = o /\ ~ IsValue(a, p)
    BY <2>1, <2>2, ReadingsAgree DEF Chosen
  <2>10. DOMAIN Flags = FlagOptions
    BY OptionFacts
  <2>11. modes["Algorithm"] = LastAlgorithm(args)
    BY <2>1, <2>2, ReadingsAgree DEF Chosen
  <2>12. ASSUME shortInput PROVE ShortsAre(args, modes["InFile"], modes["Infix"])
    <3>1. ShortArgs(a, Len(a), modes["InFile"], modes["Infix"]) /\ modes["InFile"] # NoWord
      BY <2>2, <2>3, <2>12 DEF Chosen
    <3>2. ShortsUpTo(a, Len(a)) = Shorts(a) /\ Shorts(a) \subseteq 1 .. Len(a)
      BY <2>2, ReadingsAgree, Zenon DEF Shorts
    <3>3. \/ modes["Infix"] = NoWord /\ \E p \in 1 .. Len(a) : Shorts(a) = {p} /\ modes["InFile"] = a[p]
          \/ \E p, q \in 1 .. Len(a) : /\ p < q /\ Shorts(a) = {p, q}
                                       /\ modes["InFile"] = a[p] /\ modes["Infix"] = a[q]
      BY <3>1, <3>2 DEF ShortArgs
    <3> QED BY <2>1, <3>3, Zenon DEF ShortsAre, NoWord
  <2> QED BY <2>1, <2>5, <2>7, <2>8, <2>9, <2>10, <2>11, <2>12, Zenon DEF ArgumentsCountOnce, NoWord
<1>2. ProcessInv => ModesInv
  BY DEF ProcessInv
<1> QED BY <1>1, <1>2, ModesInductive, ProcessInductive, PTL

\* Without -i the number of short arguments decides what the program does, and a command
\* line that is accepted has one or two of them.
THEOREM ShortFormIsDecided == (Spec \/ ProgramSpec) => []ShortFormDecides
<1>1. ModesInv => ShortFormDecides
  <2> SUFFICES ASSUME ModesInv, outcome \notin {"none", "refused"}, shortInput
               PROVE  /\ Cardinality(Shorts(args)) \in 1 .. 2
                      /\ outcome = IF Cardinality(Shorts(args)) = 2 THEN "search" ELSE "create"
    BY DEF ShortFormDecides
  <2>1. PICK a : a = args
    OBVIOUS
  <2>2. Chosen(a) /\ Len(a) \in Nat /\ Verdict
    BY <2>1, Accepted
  <2>3. ShortsUpTo(a, Len(a)) = Shorts(a)
    BY <2>1, <2>2, ReadingsAgree
  <2>4. short1 # NoWord /\ modes["Infix"] = short2 /\ ShortArgs(a, Len(a), short1, short2)
    BY <2>2 DEF Chosen
  <2>5. CASE short2 = NoWord
    <3>1. PICK p \in Nat : Shorts(args) = {p}
      BY <2>1, <2>3, <2>4, <2>5 DEF ShortArgs
    <3>2. Cardinality(Shorts(args)) = 1
      BY <3>1, FS_Singleton
    <3>3. outcome = "create"
      BY <2>2, <2>4, <2>5 DEF Verdict
    <3> QED BY <3>2, <3>3
  <2>6. CASE short2 # NoWord
    <3>1. PICK p, q \in Nat : p < q /\ Shorts(args) = {p, q}
      BY <2>1, <2>3, <2>4, <2>6 DEF ShortArgs
    <3>2. IsFiniteSet({p}) /\ Cardinality({p}) = 1
      BY FS_Singleton
    <3>3. q \notin {p} /\ {p, q} = {p} \cup {q}
      BY <3>1
    <3>4. Cardinality({p, q}) = 2
      BY <3>2, <3>3, FS_AddElement
    <3>5. Cardinality(Shorts(args)) = 2
      BY <3>1, <3>4
    <3>6. outcome = "search"
      BY <2>2, <2>4, <2>6 DEF Verdict
    <3> QED BY <3>5, <3>6
  <2> QED BY <2>5, <2>6
<1>2. ProcessInv => ModesInv
  BY DEF ProcessInv
<1> QED BY <1>1, <1>2, ModesInductive, ProcessInductive, PTL
-----------------------------------------------------------------------------
\* The bounds start as the wrong way round as idxT allows, which nothing can tell
\* from a corpus until there is one symbol; then both are symbols of the corpus.
BoundsOK ==
  IF data = << >> THEN min = IndexMax /\ max = 0
  ELSE /\ \E p \in DOMAIN data : data[p] = min
       /\ \E p \in DOMAIN data : data[p] = max
       /\ \A p \in DOMAIN data : min <= data[p] /\ data[p] <= max

CorpusInv ==
  /\ file \in Seq(0 .. IndexMax - 1) /\ at \in Nat \ {0}
  /\ data \in Seq(0 .. IndexMax - 1)
  /\ BoundsOK
  /\ cpc \in {"init", "sort"} => Len(data) >= 2
-----------------------------------------------------------------------------
\* read_data begins with an empty vector.
LEMMA InitCorpusInv == CorpusInit => CorpusInv
<1> SUFFICES ASSUME CorpusInit PROVE CorpusInv
  OBVIOUS
<1>1. file \in Seq(0 .. IndexMax - 1) /\ data = << >> /\ cpc = "read" /\ at = 1
  BY FilesAssumption DEF CorpusInit
<1>2. BoundsOK
  BY DEF CorpusInit, BoundsOK
<1> QED BY <1>1, <1>2 DEF CorpusInv

\* A symbol that is kept: the bounds of the symbols so far and of this one.
LEMMA AppendKeepsBounds ==
  ASSUME CorpusInv, NEW c \in 0 .. IndexMax - 1,
         data' = Append(data, c),
         min' = IF c < min THEN c ELSE min,
         max' = IF c > max THEN c ELSE max
  PROVE  BoundsOK'
<1>1. /\ data \in Seq(0 .. IndexMax - 1) /\ IndexMax \in Nat /\ Len(data) \in Nat
      /\ DOMAIN data = 1 .. Len(data)
  BY FilesAssumption DEF CorpusInv
<1>2. /\ data' # << >>
      /\ DOMAIN data' = 1 .. Len(data) + 1
      /\ \A p \in DOMAIN data : data'[p] = data[p] /\ data[p] \in Nat
      /\ data'[Len(data) + 1] = c
  BY <1>1
<1>3. CASE data = << >>
  <2>1. min = IndexMax /\ max = 0 /\ Len(data) = 0
    BY <1>3 DEF CorpusInv, BoundsOK
  <2>2. min' = c /\ max' = c
    BY <1>1, <2>1
  <2>3. \A p \in DOMAIN data' : data'[p] = c
    BY <1>2, <2>1
  <2>4. 1 \in DOMAIN data'
    BY <1>2, <2>1
  <2> QED BY <1>2, <2>2, <2>3, <2>4 DEF BoundsOK
<1>4. CASE data # << >>
  <2>1. /\ \E p \in DOMAIN data : data[p] = min
        /\ \E p \in DOMAIN data : data[p] = max
        /\ \A p \in DOMAIN data : min <= data[p] /\ data[p] <= max
    BY <1>4 DEF CorpusInv, BoundsOK
  <2>2. min \in Nat /\ max \in Nat
    BY <1>2, <2>1
  <2>3. \A p \in DOMAIN data' : p \in DOMAIN data \/ p = Len(data) + 1
    BY <1>1, <1>2
  <2>4. \A p \in DOMAIN data' : min' <= data'[p] /\ data'[p] <= max'
    BY <1>2, <2>1, <2>2, <2>3
  <2>5. /\ \E p \in DOMAIN data' : data'[p] = min'
        /\ \E p \in DOMAIN data' : data'[p] = max'
    <3>1. DOMAIN data \subseteq DOMAIN data' /\ Len(data) + 1 \in DOMAIN data'
      BY <1>1, <1>2
    <3> QED BY <1>2, <2>1, <3>1
  <2> QED BY <1>2, <2>4, <2>5 DEF BoundsOK
<1> QED BY <1>3, <1>4

\* One symbol: kept, or a newline that is filtered.
LEMMA ReadSymbolCorpusInv == CorpusInv /\ ReadSymbol => CorpusInv'
<1> SUFFICES ASSUME CorpusInv, ReadSymbol PROVE CorpusInv'
  OBVIOUS
<1>1. /\ file' = file /\ at' = at + 1 /\ cpc = "read" /\ cpc' = "read"
      /\ at \in 1 .. Len(file) /\ file[at] \in 0 .. IndexMax - 1
      /\ at' \in Nat \ {0}
  <2>1. /\ file' = file /\ at' = at + 1 /\ cpc = "read" /\ cpc' = "read" /\ at <= Len(file)
    BY DEF ReadSymbol, NextSymbol
  <2>2. file \in Seq(0 .. IndexMax - 1) /\ at \in Nat \ {0} /\ Len(file) \in Nat
    BY DEF CorpusInv
  <2>3. at \in 1 .. Len(file) /\ at' \in Nat \ {0}
    BY <2>1, <2>2
  <2>4. file[at] \in 0 .. IndexMax - 1
    BY <2>2, <2>3, ElementOfSeq
  <2> QED BY <2>1, <2>3, <2>4
<1>2. CASE filter /\ file[at] = Newline
  <2>1. UNCHANGED <<data, min, max>>
    BY <1>2 DEF ReadSymbol
  <2> QED BY <1>1, <2>1 DEF CorpusInv, BoundsOK
<1>3. CASE ~ (filter /\ file[at] = Newline)
  <2>1. /\ data' = Append(data, file[at])
        /\ min' = IF file[at] < min THEN file[at] ELSE min
        /\ max' = IF file[at] > max THEN file[at] ELSE max
    BY <1>3 DEF ReadSymbol, NewMax
  <2>2. BoundsOK'
    BY <1>1, <2>1, AppendKeepsBounds
  <2>3. data' \in Seq(0 .. IndexMax - 1)
    BY <1>1, <2>1 DEF CorpusInv
  <2> QED BY <1>1, <2>2, <2>3 DEF CorpusInv
<1> QED BY <1>2, <1>3

\* The end of the file.
LEMMA EndOfFileCorpusInv == CorpusInv /\ (EndOfFile \/ CheckSize \/ UNCHANGED corpusVars) => CorpusInv'
<1> SUFFICES ASSUME CorpusInv, EndOfFile \/ CheckSize \/ UNCHANGED corpusVars PROVE CorpusInv'
  OBVIOUS
<1>1. UNCHANGED <<file, at, data, min, max>>
  BY DEF EndOfFile, CheckSize, corpusVars
<1>2. cpc' \in {"init", "sort"} => Len(data) >= 2
  <2>1. CASE EndOfFile
    <3>1. cpc' = IF Len(data) < 2 THEN "refused" ELSE "init"
      BY <2>1 DEF EndOfFile
    <3>2. Len(data) \in Nat
      BY DEF CorpusInv
    <3> QED BY <3>1, <3>2
  <2>2. CASE CheckSize
    BY <2>2 DEF CheckSize, CorpusInv
  <2>3. CASE UNCHANGED corpusVars
    BY <2>3 DEF corpusVars, CorpusInv
  <2> QED BY <2>1, <2>2, <2>3
<1> QED BY <1>1, <1>2 DEF CorpusInv, BoundsOK
-----------------------------------------------------------------------------
\* CorpusInv holds in every state of read_data, for every file.
LEMMA CorpusInductive == CorpusSpec => []CorpusInv
<1>1. CorpusInv /\ [CorpusNext]_corpusVars => CorpusInv'
  BY ReadSymbolCorpusInv, EndOfFileCorpusInv DEF CorpusNext, CorpusDone
<1> QED BY <1>1, InitCorpusInv, PTL DEF CorpusSpec

\* Such a corpus is one that can be sorted.
LEMMA CorpusInvFits == CorpusInv => CorpusFitsSort
<1> SUFFICES ASSUME CorpusInv, cpc = "sort"
             PROVE  /\ Len(data) >= 2
                    /\ {min, max} \subseteq Symbols
                    /\ \A c \in Symbols : min <= c /\ c <= max
  BY DEF CorpusFitsSort
<1>1. Len(data) >= 2 /\ data # << >>
  BY DEF CorpusInv
<1> QED BY <1>1 DEF CorpusInv, BoundsOK, Symbols

\* read_data (SuffixArray.hpp:274-313) hands the construction a corpus of at least two
\* symbols with its exact bounds.
THEOREM CorpusIsSortable == CorpusSpec => []CorpusFitsSort
BY CorpusInductive, CorpusInvFits, PTL

\* In the program, where a corpus is read once in every process that gets that far.
LEMMA ProgramCorpusInductive == ProgramSpec => []CorpusInv
<1>1. ProgramInit => CorpusInv
  <2>1. ProgramInit => file = << >> /\ at = 1 /\ cpc = "none" /\ data = << >>
                       /\ min = IndexMax /\ max = 0
    BY Zenon DEF ProgramInit
  <2> QED BY <2>1 DEF CorpusInv, BoundsOK
<1>2. CorpusInv /\ [Begin \/ Step]_allVars => CorpusInv'
  <2> SUFFICES ASSUME CorpusInv, [Begin \/ Step]_allVars PROVE CorpusInv'
    OBVIOUS
  <2>1. CASE OpenCorpus
    <3>1. /\ file' = file \/ file' \in Files
          /\ cpc' \in {"read", "refused"} /\ UNCHANGED <<at, data, min, max>>
      BY <2>1, CommandsAssumption DEF OpenCorpus
    <3>2. file' \in Seq(0 .. IndexMax - 1)
      BY <3>1, FilesAssumption DEF CorpusInv
    <3> QED BY <3>1, <3>2 DEF CorpusInv, BoundsOK
  <2>2. CASE ReadCorpus
    BY <2>2, ReadSymbolCorpusInv, EndOfFileCorpusInv DEF ReadCorpus
  <2>3. CASE End
    <3>1. file' = << >> /\ at' = 1 /\ cpc' = "none" /\ data' = << >> /\ min' = IndexMax /\ max' = 0
      BY <2>3, Zenon DEF End
    <3> QED BY <3>1 DEF CorpusInv, BoundsOK
  <2>4. CASE \/ Begin \/ Parse \/ InitSearches \/ InitWrites \/ Write
             \/ BeginFind \/ Fetch \/ FindReplies \/ UNCHANGED allVars
    <3>1. UNCHANGED corpusVars
      BY <2>4 DEF Begin, Parse, InitSearches, InitWrites, Write, BeginFind, Fetch, FindReplies,
                  allVars
    <3> QED BY <3>1, EndOfFileCorpusInv
  <2> QED BY <2>1, <2>2, <2>3, <2>4 DEF Step
<1> QED BY <1>1, <1>2, PTL DEF ProgramSpec

\* Whatever commands there are, each construction in the program gets what SAIS indexes
\* its buckets by.
THEOREM CorpusAlwaysFits == ProgramSpec => []CorpusFitsSort
BY ProgramCorpusInductive, CorpusInvFits, PTL
=============================================================================
