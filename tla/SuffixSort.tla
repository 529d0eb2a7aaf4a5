------------------------------- MODULE SuffixSort -------------------------------
(***************************************************************************)
(* What a construction algorithm promises to init (inc/SuffixArray.hpp:151, *)
(* SuffixArrayAlgorithm(data, max)), whichever algorithm it is: nothing but *)
(* the suffix array of the data.                                           *)
(***************************************************************************)
EXTENDS SuffixOrder

CONSTANTS Corpora

VARIABLES
  text,  \* the argument
  out    \* the value returned, << >> until then

Init == text \in Corpora /\ out = << >>

Sort ==
  /\ out = << >>
  /\ IsSuffixArray(out', text.data, text.size)
  /\ UNCHANGED text

\* It returns at most once; that it does return each algorithm states by itself.
Spec == Init /\ [][Sort]_<<text, out>>
=============================================================================
