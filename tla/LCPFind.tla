--------------------------------- MODULE LCPFind ---------------------------------
(***************************************************************************)
(* What init does with -lcp and a pattern (inc/SuffixArray.hpp:153-164):   *)
(* LCP computes the common prefixes of neighbours, NaiveLCP_LR makes rows  *)
(* of them, lower_bound searches with the rows, each with what the one     *)
(* before has left it, exact or not.                                       *)
(***************************************************************************)
EXTENDS LCPArray

CONSTANTS Patterns, Behinds   \* as in LCPSearch

\* main has no search for an empty pattern.
ASSUME PatternsAssumption ==
  \A w \in Patterns : w.len \in Nat \ {0} /\ w.inf \in [0 .. w.len - 1 -> Nat]

VARIABLES
  lcp_l, lcp_r, rpc, ri, rj, min,                             \* NaiveLCP_LR
  val, len, behind, fir, count, depth_bef, smaller, range,    \* lower_bound
  phase                        \* "lcp", "rows", or where lower_bound is

rowVars    == <<lcp_l, lcp_r, rpc, ri, rj, min>>
searchVars == <<val, len, behind, fir, count, depth_bef, smaller, range>>
findVars   == <<vars, rowVars, searchVars, phase>>

R == INSTANCE LCPLR WITH m <- n + 1, pc <- rpc, i <- ri, j <- rj
S == INSTANCE LCPSearch WITH pc <- phase
-----------------------------------------------------------------------------
FindInit ==
  /\ Init
  /\ lcp_l = << >> /\ lcp_r = << >> /\ rpc = "none" /\ ri = 0 /\ rj = 0 /\ min = 0
  /\ val = << >> /\ len = 0 /\ behind = {} /\ fir = 0 /\ count = 0
  /\ depth_bef = 0 /\ smaller = FALSE /\ range = << >>
  /\ phase = "lcp"

\* lcpAlg(data, SA).
MakeLcp == phase = "lcp" /\ (Extend \/ PopBack) /\ UNCHANGED <<rowVars, searchVars, phase>>

StartRows ==
  /\ phase = "lcp" /\ pc = "done"
  /\ UNCHANGED <<vars, searchVars>>
  /\ lcp_l' = R!FirstRow /\ lcp_r' = R!FirstRow /\ ri' = 1 /\ rj' = 0 /\ min' = 0
  /\ rpc' = "rows" /\ phase' = "rows"

\* The constructor of NaiveLCP_LR.
MakeRows ==
  /\ phase = "rows"
  /\ UNCHANGED <<vars, searchVars, phase>>
  /\ R!BeginRow \/ R!BeginLastRow \/ R!Right \/ R!EndRight \/ R!Left \/ R!EndLeft

\* find_all_infix, to which lcp_l has a size now.
StartSearch ==
  /\ phase = "rows" /\ rpc = "done"
  /\ UNCHANGED <<vars, rowVars>>
  /\ \E w \in Patterns : val' = w.inf /\ len' = w.len
  /\ behind' \in Behinds
  /\ fir' = 0 /\ count' = n + 1 /\ depth_bef' = 0 /\ smaller' = FALSE /\ range' = << >>
  /\ phase' = "search"

Search == (S!Probe \/ S!RunsAway \/ S!GiveUp) /\ UNCHANGED <<vars, rowVars>>

FindDone == phase \in {"done", "undefined"} /\ UNCHANGED findVars

FindNext == MakeLcp \/ StartRows \/ MakeRows \/ StartSearch \/ Search \/ FindDone

FindSpec == FindInit /\ [][FindNext]_findVars /\ WF_findVars(FindNext)
-----------------------------------------------------------------------------
\* The rows say how far the entries make a prefix reach, whatever the entries are.
RowsReach == phase # "lcp" => R!RowsReach

Ended == phase \in {"done", "undefined"}

\* No symbol of the corpus is in the memory behind the pattern.
Harmless == behind \cap {data[e] : e \in 0 .. n - 1} = {}

\* The three parts fit together: with exact entries the search keeps to the data and
\* returns the range of all occurrences.
ExactEntriesSuffice ==
  LcpOfNeighbours /\ Harmless /\ Ended => phase = "done" /\ IsAnswer(range, sa, data, n, val, len)

\* On the way there: std::equal starts at SA[i] + depth_bef and has no way to stop if
\* that is behind the data, so every suffix of the window has to be that long, whatever
\* has been read behind the pattern.
StartsInData == LcpOfNeighbours => S!StartsInData

\* While the match is not deeper than the pattern, the suffixes of the window share what
\* has matched, and no occurrence is outside of it, although the flag smaller keeps an
\* older value when a suffix ends.
WindowKeepsHits == LcpOfNeighbours => S!WindowKeepsHits

\* A range that is returned is the range of all occurrences, even if the comparison went
\* past the pattern.
NoFalseHit == LcpOfNeighbours => S!NoFalseHit

\* With any entries the search comes to an end, inside of the data or not: wrong rows
\* cannot send it back to a window it has left.
Termination == <>Ended

\* "pattern/infix to find in corpus" (SuffixArray.man:30).
FindsInCorpus == Harmless /\ Ended => phase = "done" /\ IsAnswer(range, sa, data, n, val, len)
=============================================================================
