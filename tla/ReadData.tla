--------------------------------- MODULE ReadData ---------------------------------
(***************************************************************************)
(* What happens to a corpus before it is sorted: read_data, which takes    *)
(* the file symbol by symbol, drops newlines if told to and keeps the      *)
(* smallest and the greatest symbol (inc/SuffixArray.hpp:39-47, 254-313),  *)
(* and checkDataSizeIdxT, to which init hands the size as an idxT          *)
(* (inc/SuffixArray.hpp:149, inc/typeChecks.hpp:23-28).                    *)
(***************************************************************************)
EXTENDS Integers, Sequences

CONSTANTS
  Files,     \* the corpora: sequences of symbols, as values of type alph
  Newline,   \* '\n'
  Bits       \* the width of idxT, 32 for unsigned

IndexMax == 2 ^ Bits - 1

\* alph is narrower than idxT.
ASSUME FilesAssumption ==
  /\ IndexMax \in Nat \ {0}
  /\ \A f \in Files : f \in Seq(0 .. IndexMax - 1)

VARIABLES
  file, filter,   \* the corpus, and -fn
  cpc, at,        \* at is where the stream iterator stands
  data, min, max,
  warned          \* "Input has too many positions for index-type(idxT)!!!"

corpusVars == <<file, filter, cpc, at, data, min, max, warned>>
-----------------------------------------------------------------------------
\* The constructor of SuffixArray: min and max as values of type idxT.
CorpusInit ==
  /\ file \in Files /\ filter \in BOOLEAN
  /\ cpc = "read" /\ at = 1 /\ data = << >>
  /\ min = IndexMax /\ max = 0 /\ warned = FALSE

\* A definition marked "Bug:" is a mistake that a run has to notice; nothing uses it.
\* Bug: a symbol is either a new minimum or a new maximum.
MaxUnlessMin(c) == IF c >= min /\ c > max THEN c ELSE max

NewMax(c) == IF c > max THEN c ELSE max

\* Bug: a newline that is dropped is not passed.
NextIfKept == IF filter /\ file[at] = Newline THEN at ELSE at + 1

\* ++i of the stream iterator.
NextSymbol == at + 1

\* One round of either loop.
ReadSymbol ==
  /\ cpc = "read" /\ at <= Len(file)
  /\ IF filter /\ file[at] = Newline
       THEN UNCHANGED <<data, min, max>>
       ELSE /\ data' = Append(data, file[at])
            /\ min' = IF file[at] < min THEN file[at] ELSE min
            /\ max' = NewMax(file[at])
  /\ at' = NextSymbol
  /\ UNCHANGED <<file, filter, cpc, warned>>

\* One symbol is no corpus: read_data returns false and the constructor exits.
EndOfFile ==
  /\ cpc = "read" /\ at > Len(file)
  /\ cpc' = IF Len(data) < 2 THEN "refused" ELSE "init"
  /\ UNCHANGED <<file, filter, at, data, min, max, warned>>

\* checkDataSizeIdxT, whose parameter is an idxT; it writes a message and returns.
CheckSize ==
  /\ cpc = "init"
  /\ warned' = (Len(data) % 2 ^ Bits >= IndexMax)
  /\ cpc' = "sort"
  /\ UNCHANGED <<file, filter, at, data, min, max>>

CorpusDone == cpc \in {"refused", "sort"} /\ UNCHANGED corpusVars

CorpusNext == ReadSymbol \/ EndOfFile \/ CheckSize \/ CorpusDone

CorpusSpec == CorpusInit /\ [][CorpusNext]_corpusVars /\ WF_corpusVars(CorpusNext)
-----------------------------------------------------------------------------
Symbols == {data[p] : p \in DOMAIN data}

\* What SAIS indexes its buckets by: the construction starts with at least two
\* symbols, and with the exact bounds of the symbols that are left after filtering.
CorpusFitsSort ==
  cpc = "sort" =>
    /\ Len(data) >= 2
    /\ {min, max} \subseteq Symbols /\ \A c \in Symbols : min <= c /\ c <= max

=============================================================================
