--------------------------------- MODULE MCModes ---------------------------------
(***************************************************************************)
(* All command lines of at most four of ten words, and longer ones that   *)
(* reach the limit of the short form.                                      *)
(***************************************************************************)
EXTENDS Modes

Words == {"-o", "-i", "-f", "-sw", "-n", "-np", "-tc", "x", "y", ""}

Shorter == UNION {[1 .. m -> Words] : m \in 0 .. 4}

Longer ==
  {<<"x", "y", "-sw", "5", "-lcp", "-fn">>,
   <<"x", "y", "-sw", "5", "-lcp", "-fn", "-n">>,
   <<"x", "-o", "z", "-is", "-tc", "-lcp">>,
   <<"x", "-o", "z", "-is", "-tc", "-lcp", "-fn">>,
   <<"-f", "p", "-i", "d", "-sw", "5", "-lcp", "-fn", "-n">>,
   <<"-i", "x", "-o", "-o", "-f", "-i", "-np", "-tc", "-fn">>}

MCArgLists == Shorter \cup Longer
=============================================================================
