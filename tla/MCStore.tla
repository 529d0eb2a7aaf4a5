--------------------------------- MODULE MCStore ---------------------------------
(***************************************************************************)
(* Two runs of creation-mode, on corpora of different sizes, in the binary *)
(* and in the string format, with and without LCP arrays, while find-mode  *)
(* runs again and again. With Base = 2 the indices have two and more digits.*)
(***************************************************************************)
EXTENDS Store

MCSave(cmpr, data, sa, m, lcp) ==
  [cmpr |-> cmpr, data |-> data, sa |-> sa, size |-> m, lcp |-> lcp]

\* "ba", and "aba".
Ba  == [p \in 0 .. 1 |-> 2 - p]
BaSA  == [p \in 0 .. 2 |-> 2 - p]
Aba == [p \in 0 .. 2 |-> 1 + (p % 2)]
AbaSA == [p \in 0 .. 3 |-> CASE p = 0 -> 3 [] p = 1 -> 2 [] p = 2 -> 0 [] p = 3 -> 1]

MCSaves ==
  {MCSave(FALSE, Ba, BaSA, 2, FALSE), MCSave(FALSE, Aba, AbaSA, 3, TRUE),
   MCSave(TRUE, Aba, AbaSA, 3, FALSE)}

MCSavesCompressed == {MCSave(TRUE, Aba, AbaSA, 3, lcp) : lcp \in BOOLEAN}
=============================================================================
