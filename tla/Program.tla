--------------------------------- MODULE Program ---------------------------------
(***************************************************************************)
(* The whole program, one command after the other: main, the constructor   *)
(* of SuffixArray and its init, findInfix and findInfixInF                 *)
(* (src/SuffixArray.cpp:43-66, inc/SuffixArray.hpp:18-179) put together    *)
(* the command line, the corpus, the construction, the data-file and the   *)
(* search. The data-file is all that a process leaves behind.              *)
(*                                                                         *)
(* Construction and search are taken by their contracts, which SAIS,       *)
(* ParallelSort and Find implement; neither -lcp nor -tc is in Commands.   *)
(***************************************************************************)
EXTENDS Modes, ReadData, SuffixOrder

CONSTANTS
  Commands,    \* as in Archive
  CorpusFile,  \* the files that can be read, by their names
  Pattern,     \* what the words of the command lines are as patterns, records [inf, len]
  MaxSize, NoSave,               \* as in Store
  Idle, Absent, Lost, Silence    \* as in Archive

ASSUME CommandsAssumption ==
  /\ Idle \notin Commands /\ \A c \in Commands : c.args \in ArgLists
  /\ \A name \in DOMAIN CorpusFile : CorpusFile[name] \in Files

VARIABLES
  command, reply,
  disk, owner, wpc, rpc, rat, good, quiet, got             \* Store

modesVars == <<args, pc, i, modes, short1, short2, shortInput, outcome>>
storeVars == <<disk, owner, wpc, rpc, rat, good, quiet, got>>
allVars   == <<command, reply, corpusVars, modesVars, storeVars>>

-----------------------------------------------------------------------------
\* The vector data, whose cells are numbered from 0, and its suffix array.
Text == [data |-> [p \in 0 .. Len(data) - 1 |-> data[p + 1]], size |-> Len(data)]

Save == [cmpr |-> FALSE, lcp |-> FALSE, size |-> Text.size, data |-> Text.data,
         sa |-> SuffixArrayOf(Text.data, Text.size)]

D == INSTANCE Store WITH
       at <- rat, saved <- Save, runs <- 1, Saves <- {}, Base <- 16, MaxRuns <- 1

\* The text positions in the range that find_all_infix returns, which print_range shows.
Printed(sa, t, m, w) ==
  LET range == CHOOSE r \in (1 .. m + 1) \X (1 .. m + 1) : IsAnswer(r, sa, t, m, w.inf, w.len)
  IN  {sa[p] : p \in range[1] .. range[2] - 1}

ProgramInit ==
  /\ command = Idle /\ reply = Silence
  /\ file = << >> /\ filter = FALSE /\ cpc = "none" /\ at = 1
  /\ data = << >> /\ min = IndexMax /\ max = 0 /\ warned = FALSE
  /\ args = << >> /\ pc = "none" /\ i = 1 /\ modes = Default /\ short1 = "" /\ short2 = ""
  /\ shortInput = FALSE /\ outcome = "none"
  /\ disk = << >> /\ owner = NoSave /\ wpc = "none"
  /\ rpc = "none" /\ rat = 1 /\ good = TRUE /\ quiet = TRUE /\ got = D!Nothing
-----------------------------------------------------------------------------
\* A process starts: nothing is left of the one before but the data-file.
Begin ==
  /\ command = Idle /\ command' \in Commands
  /\ args' = command'.args /\ reply' = Silence /\ pc' = "parse"
  /\ UNCHANGED <<corpusVars, i, modes, short1, short2, shortInput, outcome, storeVars>>

Parse ==
  /\ UNCHANGED <<command, reply, corpusVars, storeVars>>
  /\ TakeValue \/ TakeFlag \/ TakePositional \/ CheckShortInput \/ Dispatch

\* The constructor of SuffixArray, and read_data opens the corpus.
OpenCorpus ==
  /\ outcome \in {"create", "search"} /\ cpc = "none"
  /\ IF modes["InFile"] \in DOMAIN CorpusFile
       THEN file' = CorpusFile[modes["InFile"]] /\ cpc' = "read"
       ELSE UNCHANGED file /\ cpc' = "refused"
  /\ filter' = (modes["FilterNewline"] # "")
  /\ UNCHANGED <<command, reply, at, data, min, max, warned, modesVars, storeVars>>

ReadCorpus ==
  /\ ReadSymbol \/ EndOfFile \/ CheckSize
  /\ UNCHANGED <<command, reply, modesVars, storeVars>>

\* A definition marked "Bug:" is a mistake that a run has to notice; nothing uses it.
\* Bug: only -f makes a search.
GivenByOption == ~ shortInput

\* if(infix.size()).
HasInfix == modes["Infix"] # ""

\* init, when the suffix array is there: with a pattern it searches and writes nothing.
InitSearches ==
  /\ cpc = "sort" /\ reply = Silence /\ HasInfix
  /\ reply' = Printed(Save.sa, Save.data, Save.size, Pattern[modes["Infix"]])
  /\ UNCHANGED <<command, corpusVars, modesVars, storeVars>>

InitWrites ==
  /\ cpc = "sort" /\ wpc = "none" /\ ~ HasInfix
  /\ wpc' = "ready"
  /\ UNCHANGED <<command, reply, corpusVars, modesVars, disk, owner, rpc, rat, good, quiet, got>>

Write ==
  /\ UNCHANGED <<command, reply, corpusVars, modesVars>>
  /\ D!OpenToWrite \/ D!WriteCell \/ D!Report \/ D!StreamFails \/ D!Crash

\* findInfixInF: read, from a SuffixArray that find's constructor has left empty.
BeginFind ==
  /\ outcome = "find" /\ rpc = "none"
  /\ rpc' = "ready"
  /\ UNCHANGED <<command, reply, corpusVars, modesVars, disk, owner, wpc, rat, good, quiet, got>>

Fetch ==
  /\ UNCHANGED <<command, reply, corpusVars, modesVars>>
  /\ \/ D!OpenToRead \/ D!Refuse \/ D!ReadFlag \/ D!ReadSize \/ D!ReadData \/ D!ReadArray
     \/ D!ReadWidth \/ D!ReadStrings \/ D!ReadLcp \/ D!Throw

\* What find_all_infix makes of vectors that are no suffix array is left open: it finds
\* nothing, or anything there is.
FindReplies ==
  /\ rpc = "done" /\ reply = Silence
  /\ LET w == Pattern[modes["Infix"]]
     IN  IF got.size > 0 /\ IsSuffixArray(got.sa, got.data, got.size)
           THEN reply' = Printed(got.sa, got.data, got.size, w)
           ELSE reply' \in {{}, 0 .. got.size}
  /\ UNCHANGED <<command, corpusVars, modesVars, storeVars>>

\* Where a process ends: with an error, killed, or at the end of main.
Ended ==
  \/ outcome = "refused" \/ cpc = "refused" \/ rpc \in {"refused", "thrown"}
  \/ wpc \in {"reported", "crashed"} \/ reply # Silence

End ==
  /\ command # Idle /\ Ended
  /\ command' = Idle
  /\ file' = << >> /\ filter' = FALSE /\ cpc' = "none" /\ at' = 1
  /\ data' = << >> /\ min' = IndexMax /\ max' = 0 /\ warned' = FALSE
  /\ args' = << >> /\ pc' = "none" /\ i' = 1 /\ modes' = Default /\ short1' = "" /\ short2' = ""
  /\ shortInput' = FALSE /\ outcome' = "none"
  /\ wpc' = "none" /\ rpc' = "none" /\ rat' = 1 /\ good' = TRUE /\ quiet' = TRUE
  /\ got' = D!Nothing
  /\ UNCHANGED <<reply, disk, owner>>

Step ==
  \/ Parse \/ OpenCorpus \/ ReadCorpus \/ InitSearches \/ InitWrites \/ Write
  \/ BeginFind \/ Fetch \/ FindReplies \/ End

\* A process is not stopped by anything but what Step says; nobody has to start one.
ProgramSpec == ProgramInit /\ [][Begin \/ Step]_allVars /\ WF_allVars(Step)
-----------------------------------------------------------------------------
\* The text in the data-file, if all of it is there.
Kept ==
  IF owner = NoSave THEN Absent
  ELSE IF disk = D!Image(owner) THEN [data |-> owner.data, size |-> owner.size] ELSE Lost

Promise == INSTANCE Archive WITH kept <- Kept

\* The parts together do what the manual makes of each command line, in any sequence of
\* commands, some killed and some with a stream that fails: a search or a find replies
\* with all positions and no others and leaves the data-file alone, a create replaces
\* the text that was kept, and until it is done there is none.
ImplementsArchive == Promise!Spec

\* Every command comes to an end, one that reads a broken data-file too.
CommandEnds == command # Idle ~> command = Idle
=============================================================================
