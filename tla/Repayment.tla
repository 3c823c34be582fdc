----------------------------- MODULE Repayment ------------------------------
(***************************************************************************)
(* What a loan promises to the employee who owes it: it gets its plan of   *)
(* installments once, when it is approved; a month collects from it once,  *)
(* and only what is due in that month; it is PAID_OFF only when all of the *)
(* plan was taken, and stays so; it is forgotten with its employee.        *)
(*                                                                         *)
(* Two services keep this promise together: loan.service.ts writes the     *)
(* plan, approve of payroll.service.ts takes from it.  Loans models the    *)
(* first statement by statement and Payroll the second; each implements    *)
(* this module (LoansRefinement, PayrollRefinement), so that what each     *)
(* takes for granted of the other is no more than the other does.          *)
(***************************************************************************)
CONSTANTS
    Borrowed,    \* the loans
    Months,      \* the months payroll is run for
    DueMonths,   \* those installments may be due in
    Keys         \* of the installments of a loan

VARIABLES
    standing,    \* loan -> "OPEN", "APPROVED", "PAID_OFF" or "REMOVED"
    plan,        \* loan -> its installments
    taken,       \* loan -> those of them that were taken out of the pay
    collected    \* the months whose payroll is approved

repaymentVars == <<standing, plan, taken, collected>>

Installment == [key: Keys, due: DueMonths]
IsPlan(S) == S \subseteq Installment /\ \A i, j \in S : i.key = j.key => i = j

\* LoanService.approve.
Approve(l) ==
    /\ standing[l] = "OPEN"
    /\ IsPlan(plan'[l])
    /\ standing' = [standing EXCEPT ![l] = "APPROVED"]
    /\ plan' = [plan EXCEPT ![l] = plan'[l]]
    /\ UNCHANGED <<taken, collected>>

\* What the payroll of a month may do to a loan.  It may leave an installment for
\* later, or a loan APPROVED from which all is taken.
Collects(l, m) ==
    LET new == taken'[l] \ taken[l] IN
    /\ taken[l] \subseteq taken'[l]
    /\ new \subseteq {i \in plan[l] : i.due = m}
    /\ new # {} => standing[l] = "APPROVED"
    /\ \/ standing'[l] = standing[l]
       \/ standing[l] = "APPROVED" /\ standing'[l] = "PAID_OFF" /\ taken'[l] = plan[l]

\* PayrollService.approve.
Collect(m) ==
    /\ m \notin collected
    /\ collected' = collected \cup {m}
    /\ standing' = [l \in Borrowed |-> standing'[l]]
    /\ taken' = [l \in Borrowed |-> taken'[l]]
    /\ \A l \in Borrowed : Collects(l, m)
    /\ UNCHANGED plan

\* A payroll approved once more collects nothing: at most it finds the loans that an
\* earlier approval left APPROVED.
Settle(L) ==
    /\ \A l \in L : standing[l] = "APPROVED" /\ taken[l] = plan[l]
    /\ standing' = [l \in Borrowed |-> IF l \in L THEN "PAID_OFF" ELSE standing[l]]
    /\ UNCHANGED <<plan, taken, collected>>

\* EmployeeService.remove: the loans of an employee go, whatever they still ask for.
Forget(L) ==
    /\ standing' = [l \in Borrowed |-> IF l \in L THEN "REMOVED" ELSE standing[l]]
    /\ plan' = [l \in Borrowed |-> IF l \in L THEN {} ELSE plan[l]]
    /\ taken' = [l \in Borrowed |-> IF l \in L THEN {} ELSE taken[l]]
    /\ UNCHANGED collected

\* Different requests about the payroll of a month overlap: nothing more is promised
\* of the installments due in it.
Doubt(m) ==
    /\ plan' = [l \in Borrowed |-> {i \in plan[l] : i.due # m}]
    /\ taken' = [l \in Borrowed |-> {i \in taken[l] : i.due # m}]
    /\ collected' = collected \ {m}
    /\ UNCHANGED standing

-----------------------------------------------------------------------------
RepaymentInit ==
    /\ standing = [l \in Borrowed |-> "OPEN"]
    /\ plan = [l \in Borrowed |-> {}]
    /\ taken = [l \in Borrowed |-> {}]
    /\ collected = {}

RepaymentNext ==
    \/ \E l \in Borrowed : Approve(l)
    \/ \E m \in Months : Collect(m) \/ Doubt(m)
    \/ \E L \in SUBSET Borrowed : Settle(L) \/ Forget(L)

RepaymentSpec == RepaymentInit /\ [][RepaymentNext]_repaymentVars
=============================================================================
