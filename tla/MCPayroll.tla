----------------------------- MODULE MCPayroll -----------------------------
(* Payroll with one employee, whose loan has installments due in two months, or with two *)
(* employees and a loan each, due in the same month.                                     *)
EXTENDS PayrollRefinement, TLC

CONSTANTS p1, p2, c1, c2, c3

OneCaller == {p1}
TwoCallers == {p1, p2}
TwoCycles == {c1, c2}
ThreeCycles == {c1, c2, c3}
OneMonth == {"jan"}
TwoMonths == {"jan", "feb"}

OneLoanBorrower == "loan1" :> "emp1"
OneLoanOf == "i1" :> "loan1" @@ "i2" :> "loan1"
OneLoanDue == "i1" :> "jan" @@ "i2" :> "feb"

TwoLoansBorrower == "loan1" :> "emp1" @@ "loan2" :> "emp2"
TwoLoansOf == "i1" :> "loan1" @@ "i2" :> "loan2"
TwoLoansDue == "i1" :> "jan" @@ "i2" :> "jan"

Symmetry == Permutations(Callers) \cup Permutations(CycleIds)
=============================================================================
