------------------------------- MODULE MCLCPFind -------------------------------
(***************************************************************************)
(* All texts of 2 .. 6 symbols over an alphabet of two and of 2 .. 4 over  *)
(* one of three: the greatest suffix is anywhere in the text. All patterns *)
(* of up to four symbols over two of them, and some others.                *)
(***************************************************************************)
EXTENDS LCPFind

Strings(symbols, sizes) == UNION {[0 .. m - 1 -> symbols] : m \in sizes}

Index(m, d) == [data |-> d, size |-> m, sa |-> SuffixArrayOf(d, m)]

MCIndexes ==
  UNION {{Index(m, d) : d \in [0 .. m - 1 -> {2, 4}]} : m \in 2 .. 6}
    \cup UNION {{Index(m, d) : d \in [0 .. m - 1 -> {1, 2, 4}]} : m \in 2 .. 4}

MCPatterns == {[inf |-> w, len |-> Cardinality(DOMAIN w)] :
                 w \in Strings({2, 4}, 1 .. 4) \cup Strings({1, 3, 5}, {1})}

MCBehinds == {{0}, {0, 2, 4}}
=============================================================================
