------------------------- MODULE PayrollRefinement --------------------------
(* Payroll implements PayrollLifecycle and Repayment: the refinement mappings. *)
EXTENDS Payroll

CycleOf(m) == {c \in CycleIds : Exists(c) /\ cycle[c].month = m}
TheOne(S) == CHOOSE c \in S : TRUE

\* A payslip as the lifecycle knows it, without the key of its cycle.
Shown(S) == {[emp |-> s.emp, insts |-> s.insts] : s \in S}

\* A month of which different requests have overlapped shows nothing.
stage == [m \in Months |->
            IF m \in mixed THEN "MIXED"
            ELSE IF CycleOf(m) = {} THEN "NONE" ELSE cycle[TheOne(CycleOf(m))].status]

payslips == [m \in Months |->
               IF m \in mixed THEN {} ELSE Shown({s \in slips : s.cycle \in CycleOf(m)})]

deducted == [m \in Months |->
               IF m \in mixed THEN {}
               ELSE {i \in Installments : inst[i].status = "DEDUCTED" /\ Due[i] = m}]

gone == {e \in Employees : staff[e] = "REMOVED"}

Lifecycle ==
    INSTANCE PayrollLifecycle
    WITH Owner <- [i \in Installments |-> Borrower[LoanOf[i]]],
         stage <- stage, payslips <- payslips, deducted <- deducted, gone <- gone

\* Requests split into statements, pressed twice, cut short and tried again never show
\* more than the lifecycle of one handler at a time: payslips change in DRAFT only, what
\* is approved is what was reviewed, deductions come from approvals, an approved payslip
\* goes with its employee only; and a month is spoilt by its own requests only.
ImplementsLifecycle == Lifecycle!Spec

-----------------------------------------------------------------------------
standing == [l \in Loans |-> IF loan[l] = "PENDING" THEN "OPEN" ELSE loan[l]]

Planned(i) == [key |-> i, due |-> Due[i]]
PlannedOf(l, statuses) ==
    {Planned(i) : i \in {j \in Installments : /\ LoanOf[j] = l
                                              /\ Due[j] \notin mixed
                                              /\ inst[j].status \in statuses}}
plan == [l \in Loans |-> PlannedOf(l, {"PENDING", "DEDUCTED"})]
taken == [l \in Loans |-> PlannedOf(l, {"DEDUCTED"})]

collected == {m \in Months \ mixed : \E c \in CycleIds : Published(c) /\ cycle[c].month = m}

Promise ==
    INSTANCE Repayment WITH Borrowed <- Loans, DueMonths <- Months, Keys <- Installments,
                            standing <- standing, plan <- plan, taken <- taken, collected <- collected

\* The payroll takes its part in what a loan promises: however its requests are broken
\* into statements, overlap, fail and start again, a month collects once and only what is
\* due in it, and PAID_OFF says that all of the plan was taken.
KeepsPromise == Promise!RepaymentSpec
=============================================================================
