--------------------------------- MODULE MCSAIS ---------------------------------
(***************************************************************************)
(* Bounded instances of SAIS: all texts over small alphabets with the min  *)
(* and max that read_data finds, and texts that recur deeply.              *)
(***************************************************************************)
EXTENDS SAIS, FiniteSetsExt

\* read_data computes min and max from the data.
Corpus(size, data) ==
  LET used == {data[i] : i \in 0 .. size - 1}
  IN  [data |-> data, size |-> size, min |-> Min(used), max |-> Max(used)]

\* Every text over the symbols 3, 4 (and 5) with 2 .. size symbols: the smallest
\* one is not 0, so that subtracting min matters.
Texts(symbols, size) ==
  UNION {{Corpus(m, d) : d \in [0 .. m - 1 -> symbols]} : m \in 2 .. size}

SmallCorpora == Texts({3, 4}, 8) \cup Texts({3, 4, 6}, 5)

\* Texts of two symbols, by the positions of the larger one.
Binary(size, large) == Corpus(size, [i \in 0 .. size - 1 |-> IF i \in large THEN 4 ELSE 3])

\* babaababaababaabab is the shortest text with a third level, and so are those
\* that lose their first or last symbols, of two levels, next to it.
DeepCorpora ==
  {Binary(18, {0, 2, 5, 7, 10, 12, 15, 17}),
   Binary(17, {0, 2, 5, 7, 10, 12, 15}),
   Binary(17, {1, 4, 6, 9, 11, 14, 16}),
   Binary(20, {0, 2, 5, 7, 10, 12, 15, 17, 19})}

MCCorpora == SmallCorpora \cup DeepCorpora
=============================================================================
