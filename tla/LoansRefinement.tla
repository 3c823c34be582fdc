-------------------------- MODULE LoansRefinement ---------------------------
(* Loans implements Repayment: the refinement mapping. *)
EXTENDS Loans

\* A loan that two calls decide on at once is given up, like one that was deleted.
Kept(l) == l \notin contested /\ loan[l].status # "DELETED"
standing == [l \in LoanIds |->
               IF ~Kept(l) THEN "REMOVED"
               ELSE IF loan[l].status \in {"APPROVED", "PAID_OFF"} THEN loan[l].status ELSE "OPEN"]

\* An installment is known by its place in the schedule.
Planned(l, i) == [key |-> i, due |-> installments[l][i].due.month]
PlannedOf(l, S) == IF Kept(l) THEN {Planned(l, i) : i \in S} ELSE {}
plan == [l \in LoanIds |-> PlannedOf(l, DOMAIN installments[l])]
taken == [l \in LoanIds |->
            PlannedOf(l, {i \in DOMAIN installments[l] : installments[l][i].status = "DEDUCTED"})]

Promise ==
    INSTANCE Repayment WITH Borrowed <- LoanIds, DueMonths <- Nat, Keys <- Nat,
                            standing <- standing, plan <- plan, taken <- taken, collected <- approved

\* Requests, approvals, removals and payrolls, each broken into statements, overlapping and
\* cut short anywhere, never show more of a loan than its promise: one plan, made once, from
\* which a month takes what is due in it; and a loan is spoilt by its own calls only.
KeepsPromise == Promise!RepaymentSpec
=============================================================================
