------------------------------ MODULE MCParallelFor ------------------------------
(***************************************************************************)
(* Two threads, and four divisions for a start. A range that is halved;    *)
(* one that is divided at any cell, long enough for a full pool, and a     *)
(* short one; and one that is not divided. Depths of 0 .. 3, which wrap    *)
(* around, and a pool of up to two ranges.                                 *)
(***************************************************************************)
EXTENDS ParallelFor

Whole(k, m) == [kind |-> k, size |-> m]

MCWholes == {Whole("halves", 1), Whole("halves", 8), Whole("pivot", 7), Whole("pivot", 3)}
=============================================================================
