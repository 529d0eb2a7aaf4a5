---------------------------------- MODULE Modes ----------------------------------
(***************************************************************************)
(* The command line: the constructor of Modes (inc/parseModes.hpp), which  *)
(* goes through the arguments once, its check_short_input, and what main   *)
(* and init make of the result (src/SuffixArray.cpp:46-63,                 *)
(* inc/SuffixArray.hpp:163-177): create a data-file, search the corpus     *)
(* without saving it, find in a data-file, or exit with an error.          *)
(***************************************************************************)
EXTENDS Integers, Sequences, FiniteSets

CONSTANT ArgLists   \* what argv[1 ..] may be: sequences of strings

ASSUME ArgListsAssumption == \A a \in ArgLists : a \in Seq(STRING)

VARIABLES
  args,            \* argv without the name of the program
  pc, i,           \* i is the argument the constructor looks at
  modes,           \* the member vector, by the keys of operator[]
  short1, short2,  \* short_input_arg1, short_input_arg2
  shortInput,
  outcome          \* what the program then does

vars == <<args, pc, i, modes, short1, short2, shortInput, outcome>>
-----------------------------------------------------------------------------
\* The options that take the next argument, and the mode they set.
Valued == [o \in {"-o", "-i", "-f", "-sw"} |->
             CASE o = "-o" -> "OutFile" [] o = "-i" -> "InFile"
               [] o = "-f" -> "Infix"   [] o = "-sw" -> "SubstringWidth"]

Algorithms == {"-n", "-np", "-is"}

Flags == [o \in {"-tc", "-lcp", "-fn"} |->
            CASE o = "-tc" -> "TryCompression" [] o = "-lcp" -> "useLCP"
              [] o = "-fn" -> "FilterNewline"]

Keys == {Valued[o] : o \in DOMAIN Valued} \cup {Flags[o] : o \in DOMAIN Flags} \cup {"Algorithm"}

Default == [key \in Keys |-> CASE key = "OutFile" -> "SA_DATA" [] key = "Algorithm" -> "-is"
                               [] OTHER -> ""]

Positional(a) == a \notin DOMAIN Valued \cup Algorithms \cup DOMAIN Flags

Exit == pc' = "ended" /\ outcome' = "refused"

Init ==
  /\ args \in ArgLists
  /\ pc = "parse" /\ i = 1 /\ modes = Default
  /\ short1 = "" /\ short2 = "" /\ shortInput = FALSE /\ outcome = "none"

\* Bugs a run has to notice stand before the definition they would replace, marked
\* "Bug:". Bug: the value is looked at again.
AtValue == i + 1

\* The counter that TakeValue and the loop both advance.
BehindValue == i + 2

\* -o, -i, -f, -sw: the next argument is the value, whatever it looks like.
TakeValue ==
  /\ pc = "parse" /\ i <= Len(args) /\ args[i] \in DOMAIN Valued
  /\ IF i + 1 <= Len(args)
       THEN modes' = [modes EXCEPT ![Valued[args[i]]] = args[i + 1]] /\ UNCHANGED <<pc, outcome>>
       ELSE Exit /\ UNCHANGED modes
  /\ i' = BehindValue
  /\ UNCHANGED <<args, short1, short2, shortInput>>

\* -n, -np, -is, and the flags.
TakeFlag ==
  /\ pc = "parse" /\ i <= Len(args)
  /\ \/ args[i] \in Algorithms /\ modes' = [modes EXCEPT !["Algorithm"] = args[i]]
     \/ args[i] \in DOMAIN Flags /\ modes' = [modes EXCEPT ![Flags[args[i]]] = " "]
  /\ i' = i + 1
  /\ UNCHANGED <<args, pc, short1, short2, shortInput, outcome>>

\* Anything else is the first or the second short argument; an empty one leaves its
\* place to the next.
TakePositional ==
  /\ pc = "parse" /\ i <= Len(args) /\ Positional(args[i])
  /\ \/ short1 = "" /\ short1' = args[i] /\ UNCHANGED <<pc, outcome, short2>>
     \/ short1 # "" /\ short2 = "" /\ short2' = args[i] /\ UNCHANGED <<pc, outcome, short1>>
     \/ short1 # "" /\ short2 # "" /\ Exit /\ UNCHANGED <<short1, short2>>
  /\ i' = i + 1
  /\ UNCHANGED <<args, modes, shortInput>>

\* Bug: the pattern is not taken over.
ShortFile == [modes EXCEPT !["InFile"] = short1]

\* The short arguments in the place of -i and -f.
ShortModes == [modes EXCEPT !["InFile"] = short1, !["Infix"] = short2]

\* check_short_input: without -i the short arguments are the modes, up to argc = 7.
CheckShortInput ==
  /\ pc = "parse" /\ i > Len(args)
  /\ shortInput' = (modes["InFile"] = "")
  /\ \/ modes["InFile"] # "" /\ pc' = "dispatch" /\ UNCHANGED <<modes, outcome>>
     \/ /\ modes["InFile"] = ""
        /\ IF Len(args) + 1 \in 2 .. Cardinality(Keys) - 1 /\ short1 # ""
             THEN /\ modes' = ShortModes
                  /\ pc' = "dispatch" /\ UNCHANGED outcome
             ELSE Exit /\ UNCHANGED modes
  /\ UNCHANGED <<args, i, short1, short2>>

\* main, and init: the constructor of SuffixArray writes a data-file unless there
\* is a pattern.
Dispatch ==
  /\ pc = "dispatch"
  /\ pc' = "ended"
  /\ outcome' = IF shortInput \/ modes["Infix"] = ""
                  THEN IF modes["Infix"] = "" THEN "create" ELSE "search"
                  ELSE IF modes["InFile"] = "" THEN "refused" ELSE "find"
  /\ UNCHANGED <<args, i, modes, short1, short2, shortInput>>

Done == pc = "ended" /\ UNCHANGED vars

Next == TakeValue \/ TakeFlag \/ TakePositional \/ CheckShortInput \/ Dispatch \/ Done

Spec == Init /\ [][Next]_vars
-----------------------------------------------------------------------------
\* Reading the list a backwards: argument p is the value of an option if an odd number
\* of valued options stands in a row before it.
IsValue(a, p) ==
  \E m \in 1 .. p - 1 :
    /\ m % 2 = 1
    /\ \A q \in p - m .. p - 1 : a[q] \in DOMAIN Valued
    /\ p - m = 1 \/ a[p - m - 1] \notin DOMAIN Valued

\* The last value given for an option, or its default.
LastOf(a, option) ==
  LET at == {p \in 2 .. Len(a) : IsValue(a, p) /\ a[p - 1] = option}
  IN  IF at = {} THEN Default[Valued[option]]
                 ELSE a[CHOOSE p \in at : \A q \in at : q <= p]

\* The last algorithm asked for, or the default.
LastAlgorithm(a) ==
  LET at == {p \in 1 .. Len(a) : a[p] \in Algorithms /\ ~ IsValue(a, p)}
  IN  IF at = {} THEN Default["Algorithm"]
                 ELSE a[CHOOSE p \in at : \A q \in at : q <= p]

\* The arguments that are neither an option nor the value of one, and not empty.
Shorts(a) == {p \in 1 .. Len(a) : ~ IsValue(a, p) /\ Positional(a[p]) /\ a[p] # ""}

\* They are u and, if there are two, v, in this order.
ShortsAre(a, u, v) ==
  \/ v = "" /\ \E p \in 1 .. Len(a) : Shorts(a) = {p} /\ u = a[p]
  \/ \E p, q \in 1 .. Len(a) : p < q /\ Shorts(a) = {p, q} /\ u = a[p] /\ v = a[q]

\* An argument counts in one way, in a command that is accepted: the modes are the last
\* value of each option, the last algorithm and the flags that are given, and an option
\* that is the value of another one is none. Corpus and pattern are those of -i and -f,
\* whatever the short arguments are, if there is an -i that is not empty; if not, they are
\* the short arguments in their order, whatever -f says (parseModes.hpp:139-140).
ArgumentsCountOnce ==
  outcome \in {"create", "search", "find"} =>
    /\ modes["OutFile"] = LastOf(args, "-o") /\ modes["SubstringWidth"] = LastOf(args, "-sw")
    /\ modes["Algorithm"] = LastAlgorithm(args)
    /\ \A o \in DOMAIN Flags :
         (modes[Flags[o]] # "") <=> \E p \in 1 .. Len(args) : args[p] = o /\ ~ IsValue(args, p)
    /\ shortInput = (LastOf(args, "-i") = "")
    /\ IF shortInput
         THEN ShortsAre(args, modes["InFile"], modes["Infix"])
         ELSE modes["InFile"] = LastOf(args, "-i") /\ modes["Infix"] = LastOf(args, "-f")

\* "If two arguments without preceeding options are passed directly to the program, no
\* data-file will be created" (SuffixArray.man:9), as far as the code keeps to it: with
\* no -i, two arguments search and one creates.
ShortFormDecides ==
  outcome \notin {"none", "refused"} /\ shortInput =>
    /\ Cardinality(Shorts(args)) \in 1 .. 2
    /\ outcome = IF Cardinality(Shorts(args)) = 2 THEN "search" ELSE "create"

\* "-f ... if specified, -i has to be specified with precomputed SA_DATA"
\* (SuffixArray.man:30).
FindNeedsData ==
  pc = "ended" /\ LastOf(args, "-f") # "" /\ LastOf(args, "-i") = "" => outcome = "refused"

=============================================================================
