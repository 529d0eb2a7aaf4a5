---------------------------------- MODULE LCPLR ----------------------------------
(***************************************************************************)
(* class NaiveLCP_LR (inc/LCPArrayNaive.hpp:72-168): for each position of  *)
(* the suffix array and each depth, how far the common prefix reaches to   *)
(* the left and to the right, from the common prefixes of neighbours.      *)
(***************************************************************************)
EXTENDS Integers

VARIABLES
  m, lcp,       \* SA.size(), and the common prefixes of neighbours, one less
  pc, i, j, min,
  lcp_l, lcp_r

input == <<m, lcp>>
vars  == <<input, pc, i, j, min, lcp_l, lcp_r>>
-----------------------------------------------------------------------------
\* std::vector::resize of an empty vector: s cells of value v.
Cells(s, v) == [d \in 0 .. s - 1 |-> v]

\* std::fill of the first s cells of row r.
Fill(r, s, v) == [d \in DOMAIN r |-> IF d < s THEN v ELSE r[d]]

\* A row for the empty suffix, which shares nothing; the others are empty.
FirstRow == [p \in 0 .. m - 1 |-> IF p = 0 THEN Cells(1, 0) ELSE Cells(0, 0)]

Init ==
  /\ m \in Nat /\ m >= 3
  /\ lcp \in [0 .. m - 2 -> Nat] /\ lcp[0] = 0
  /\ lcp_l = FirstRow /\ lcp_r = FirstRow
  /\ i = 1 /\ j = 0 /\ min = 0 /\ pc = "rows"

\* make_lcp_lr_max, and the call of make_lcp_r.
BeginRow ==
  /\ pc = "rows" /\ i < m - 1
  /\ lcp_l' = [lcp_l EXCEPT ![i] = Cells(lcp[i - 1], i - 1)]
  /\ lcp_r' = [lcp_r EXCEPT ![i] = Cells(lcp[i], i + 1)]
  /\ pc' = "right" /\ j' = i + 1 /\ min' = lcp[i]
  /\ UNCHANGED <<input, i>>

\* The row behind the loop: the last suffix has no right neighbour.
BeginLastRow ==
  /\ pc = "rows" /\ i = m - 1
  /\ lcp_l' = [lcp_l EXCEPT ![i] = Cells(lcp[i - 1], i)]
  /\ pc' = "left" /\ j' = i - 1 /\ min' = lcp[i - 1]
  /\ UNCHANGED <<input, i, lcp_r>>

\* A definition marked "Bug:" is a mistake that a run has to notice; nothing uses it.
\* Bug: no minimum is kept.
Last(a, b) == a

Lower(a, b) == IF a < b THEN a ELSE b

\* make_lcp_r: the prefixes of depth up to min reach one position further.
Right ==
  /\ pc = "right" /\ j <= m - 2 /\ lcp[j] # 0
  /\ min' = Lower(lcp[j], min)
  /\ lcp_r' = [lcp_r EXCEPT ![i] = Fill(@, min', j + 1)]
  /\ j' = j + 1
  /\ UNCHANGED <<input, pc, i, lcp_l>>

\* make_lcp_r returns, and make_lcp_l is called.
EndRight ==
  /\ pc = "right" /\ (j <= m - 2 => lcp[j] = 0)
  /\ pc' = "left" /\ j' = i - 1 /\ min' = lcp[i - 1]
  /\ UNCHANGED <<input, i, lcp_l, lcp_r>>

\* make_lcp_l; j = -1 is idxT(-1).
Left ==
  /\ pc = "left" /\ j # -1 /\ lcp[j] # 0
  /\ min' = Lower(lcp[j], min)
  /\ lcp_l' = [lcp_l EXCEPT ![i] = Fill(@, min', j)]
  /\ j' = j - 1
  /\ UNCHANGED <<input, pc, i, lcp_r>>

EndLeft ==
  /\ pc = "left" /\ (j # -1 => lcp[j] = 0)
  /\ IF i = m - 1 THEN pc' = "done" /\ i' = i ELSE pc' = "rows" /\ i' = i + 1
  /\ UNCHANGED <<input, j, min, lcp_l, lcp_r>>

Done == pc = "done" /\ UNCHANGED vars

Next == BeginRow \/ BeginLastRow \/ Right \/ EndRight \/ Left \/ EndLeft \/ Done

Spec == Init /\ [][Next]_vars
-----------------------------------------------------------------------------
\* Positions p < q share a prefix of depth d + 1.
Shares(p, q, d) == \A x \in p .. q - 1 : lcp[x] > d

\* The rows done so far.
Finished == IF pc = "done" THEN 1 .. m - 1 ELSE 1 .. i - 1

\* The rows that are finished say how far each prefix reaches, to the left and to the
\* right and no further, although the loops keep only a running minimum and stop at
\* the first 0, and whatever the entries of lcp are.
RowsReach ==
  \A p \in Finished :
    /\ \A d \in 0 .. lcp[p - 1] - 1 :
         LET q == lcp_l[p][d] IN Shares(q, p, d) /\ (q > 0 => ~ Shares(q - 1, p, d))
    /\ p < m - 1 =>
         \A d \in 0 .. lcp[p] - 1 :
           LET q == lcp_r[p][d] IN Shares(p, q, d) /\ (q < m - 1 => ~ Shares(p, q + 1, d))
=============================================================================
