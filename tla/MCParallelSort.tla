----------------------------- MODULE MCParallelSort -----------------------------
(***************************************************************************)
(* All texts of 2 .. 6 symbols over an alphabet of two and some longer     *)
(* ones, from 4 suffixes on with several threads.                          *)
(***************************************************************************)
EXTENDS ParallelSort

Corpus(m, d) == [data |-> d, size |-> m]

\* Sorted texts, for which the test goes through all chunks; a text that is not
\* sorted at its end only; and texts of which the ranges are divided twice and more.
LongCorpora ==
  {Corpus(8, [p \in 0 .. 7 |-> p]),
   Corpus(8, [p \in 0 .. 7 |-> IF p = 7 THEN 0 ELSE p]),
   Corpus(9, [p \in 0 .. 8 |-> (p * 4) % 9]),
   Corpus(10, [p \in 0 .. 9 |-> (p * 3) % 7])}

MCCorpora == UNION {{Corpus(m, d) : d \in [0 .. m - 1 -> {1, 2}]} : m \in 2 .. 6} \cup LongCorpora
=============================================================================
