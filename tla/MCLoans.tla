------------------------------ MODULE MCLoans ------------------------------
(***************************************************************************)
(* Loans of a few cents, split into up to three installments.              *)
(***************************************************************************)
EXTENDS LoansRefinement, TLC

CONSTANTS p1, p2, l1, l2, e1, e2

Year == [m \in 0 .. 11 |-> IF m = 1 THEN 28 ELSE IF m \in {3, 5, 8, 10} THEN 30 ELSE 31]
By(by, value) == [by |-> by, value |-> value]
BothWays == {By("count", 3), By("amount", 2)}
On(month, day) == [month |-> month, day |-> day]
\* Day 28 exists in every month, day 31 does not.
Usual == {On(0, 28)}
MonthEnd == {On(0, 31)}
AnyDay == Usual \cup MonthEnd
Symmetry == Permutations({p1, p2}) \cup Permutations({l1, l2}) \cup Permutations({e1, e2})
=============================================================================
