--------------------------------- MODULE MCFind ---------------------------------
(***************************************************************************)
(* All texts of 2 .. 5 symbols and all patterns of 1 .. 4 symbols over an  *)
(* alphabet of two, and one more symbol that occurs in patterns only.      *)
(***************************************************************************)
EXTENDS Find

Strings(symbols, sizes) == UNION {[0 .. m - 1 -> symbols] : m \in sizes}

Index(m, d) == [data |-> d, size |-> m, sa |-> SuffixArrayOf(d, m)]

MCIndexes == UNION {{Index(m, d) : d \in [0 .. m - 1 -> {2, 4}]} : m \in 2 .. 5}

MCPatterns == {[inf |-> w, len |-> Cardinality(DOMAIN w)] :
                 w \in Strings({2, 4}, 1 .. 4) \cup Strings({2, 3, 4}, 1 .. 2)
                         \cup Strings({1, 5}, {1})}
=============================================================================
