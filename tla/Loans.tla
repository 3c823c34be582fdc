------------------------------- MODULE Loans -------------------------------
(***************************************************************************)
(* Loans and their installments (backend/src/modules/loan/loan.service.ts  *)
(* and requestLoan of backend/src/modules/ess/ess.service.ts), with the    *)
(* monthly payroll that collects them; Payroll models that part statement  *)
(* by statement.                                                           *)
(*                                                                         *)
(* Every operation reads the loan first and writes it afterwards, by id;   *)
(* the write of an approval is one transaction that reads nothing.  A call *)
(* that is refused is no step.                                             *)
(***************************************************************************)
EXTENDS LoanSchedule

CONSTANTS
    Callers,    \* API calls that may be in flight at the same time
    LoanIds,    \* primary keys of loans, never used twice
    Employees,
    Totals,     \* the amounts employees ask for
    Dtos,       \* the ways an approval splits the total
    Starts,     \* the due dates of first installments
    Months,     \* the months payroll is run for
    None        \* no value

ASSUME LoansAssumption ==
    /\ None \notin LoanIds /\ None \notin Employees
    /\ Totals \subseteq Nat \ {0}
    /\ Dtos \subseteq [by: {"count", "amount"}, value: Nat \ {0}]
    /\ \A s \in Starts : s \in [month: Nat, day: Nat] /\ IsDate(s)
    /\ Months \subseteq Nat

VARIABLES
    loan,         \* loans: id -> [emp, total, status]
    installments, \* loan -> its loan_installments, in the order of their creation
    approved,     \* the months whose payroll is approved
    gone,         \* the employees who were removed
    call,         \* caller -> the API call it executes
    contested     \* history: the loans two approvals or removals of which overlapped

vars == <<loan, installments, approved, gone, call, contested>>

NoLoan == [emp |-> None, total |-> 0, status |-> "UNUSED"]
LoanRow == {NoLoan} \cup
    [emp: Employees, total: Totals, status: {"PENDING", "APPROVED", "PAID_OFF", "DELETED"}]
Date == [month: Nat, day: Nat]
InstallmentRow == [amount: Nat, due: Date, status: {"PENDING", "DEDUCTED"}]
Idle == [pc |-> "idle", of |-> None, rows |-> <<>>]
Call == {Idle} \cup [pc: {"request"}, of: Employees, rows: {<<>>}]
               \cup [pc: {"approve"}, of: LoanIds, rows: Seq(InstallmentRow)]
               \cup [pc: {"remove"}, of: LoanIds, rows: {<<>>}]

IsRow(l) == loan[l].status \in {"PENDING", "APPROVED", "PAID_OFF"}
Schedule(total, dto, start) ==
    LET amounts == Split(total, dto)
    IN  [i \in 1 .. Len(amounts) |->
            [amount |-> amounts[i], due |-> AddUtcMonths(start, i - 1), status |-> "PENDING"]]

At(p, step) == call[p].pc = step
Become(p, c) == call' = [call EXCEPT ![p] = c]
Return(p) == Become(p, Idle)
SetStatus(l, status) == loan' = [loan EXCEPT ![l].status = status]
Insert(l, e, total) ==
    /\ loan[l] = NoLoan
    /\ loan' = [loan EXCEPT ![l] = [emp |-> e, total |-> total, status |-> "PENDING"]]

\* Another call is deciding on the loan, as it read it.
Contest(l) ==
    contested' = IF \E q \in Callers : call[q].pc \in {"approve", "remove"} /\ call[q].of = l
                 THEN contested \cup {l} ELSE contested

\* create, by the company; an employee may have any number of such loans.
Create(p, l, e, total) ==
    /\ At(p, "idle")
    /\ e \notin gone
    /\ Insert(l, e, total)
    /\ UNCHANGED <<installments, approved, gone, call, contested>>

\* requestLoan, by the employee: looks for a PENDING loan, then inserts one.
Waiting(e) == \E l \in LoanIds : loan[l].emp = e /\ loan[l].status = "PENDING"
RequestBegin(p, e) ==
    /\ At(p, "idle")
    /\ e \notin gone /\ ~Waiting(e)
    /\ Become(p, [pc |-> "request", of |-> e, rows |-> <<>>])
    /\ UNCHANGED <<loan, installments, approved, gone, contested>>

\* The foreign key refuses the loan of an employee who is gone by now (Abort).
RequestInsert(p, l, total) ==
    /\ At(p, "request")
    /\ call[p].of \notin gone
    /\ Insert(l, call[p].of, total)
    /\ Return(p)
    /\ UNCHANGED <<installments, approved, gone, contested>>

\* approve: the schedule is computed from the loan as it was read.
ApproveBegin(p, l, dto, start) ==
    /\ At(p, "idle")
    /\ loan[l].status = "PENDING"
    /\ Become(p, [pc |-> "approve", of |-> l, rows |-> Schedule(loan[l].total, dto, start)])
    /\ Contest(l)
    /\ UNCHANGED <<loan, installments, approved, gone>>

ApproveCommit(p) ==
    LET l == call[p].of
    IN  /\ At(p, "approve")
        /\ IF IsRow(l)
           THEN /\ installments' = [installments EXCEPT ![l] = @ \o call[p].rows]
                /\ SetStatus(l, "APPROVED")
           ELSE UNCHANGED <<loan, installments>>    \* the foreign key is gone: rolled back
        /\ Return(p)
        /\ UNCHANGED <<approved, gone, contested>>

\* remove; the installments of a loan go with it (onDelete: Cascade).
RemoveBegin(p, l) ==
    /\ At(p, "idle")
    /\ loan[l].status = "PENDING"
    /\ Become(p, [pc |-> "remove", of |-> l, rows |-> <<>>])
    /\ Contest(l)
    /\ UNCHANGED <<loan, installments, approved, gone>>

RemoveDelete(p) ==
    LET l == call[p].of
    IN  /\ At(p, "remove")
        /\ IF IsRow(l)
           THEN SetStatus(l, "DELETED") /\ installments' = [installments EXCEPT ![l] = <<>>]
           ELSE UNCHANGED <<loan, installments>>
        /\ Return(p)
        /\ UNCHANGED <<approved, gone, contested>>

\* The call fails or the server stops; a transaction is rolled back.
Abort(p) ==
    /\ ~At(p, "idle")
    /\ Return(p)
    /\ UNCHANGED <<loan, installments, approved, gone, contested>>

\* EmployeeService.remove and bulkRemove delete an employee with no check: the loans go
\* with the row, approved or not, and their installments with them (onDelete: Cascade).
RemoveEmployee(e) ==
    LET lost == {l \in LoanIds : loan[l].emp = e /\ IsRow(l)}
    IN  /\ e \notin gone
        /\ gone' = gone \cup {e}
        /\ loan' = [l \in LoanIds |-> IF l \in lost THEN [loan[l] EXCEPT !.status = "DELETED"] ELSE loan[l]]
        /\ installments' = [l \in LoanIds |-> IF l \in lost THEN <<>> ELSE installments[l]]
        /\ UNCHANGED <<approved, call, contested>>

(***************************************************************************)
(* The payroll of a month, from the calculation of its payslips to their   *)
(* approval: the installments due in the month are deducted, and a loan    *)
(* none of whose installments is PENDING any more is PAID_OFF.  Loans that *)
(* were not APPROVED when the payslips were computed are passed over.      *)
(***************************************************************************)
Collected(l, month) ==
    [i \in DOMAIN installments[l] |->
        IF installments[l][i].due.month = month THEN [installments[l][i] EXCEPT !.status = "DEDUCTED"]
                                                ELSE installments[l][i]]
SomeDeducted(rows) == \E i \in DOMAIN rows : rows[i].status = "DEDUCTED"    \* variant
AllDeducted(rows) == \A i \in DOMAIN rows : rows[i].status = "DEDUCTED"

PayrollApproved(month, seen) ==
    LET due == {l \in seen : \E i \in DOMAIN installments[l] :
                                /\ installments[l][i].due.month = month
                                /\ installments[l][i].status = "PENDING"}
    IN  /\ month \notin approved
        /\ \A l \in seen : loan[l].status = "APPROVED"
        /\ installments' = [l \in LoanIds |-> IF l \in due THEN Collected(l, month) ELSE installments[l]]
        /\ loan' = [l \in LoanIds |->
                      IF l \in due /\ AllDeducted(Collected(l, month))
                      THEN [loan[l] EXCEPT !.status = "PAID_OFF"] ELSE loan[l]]
        /\ approved' = approved \cup {month}
        /\ UNCHANGED <<gone, call, contested>>

-----------------------------------------------------------------------------
Init ==
    /\ loan = [l \in LoanIds |-> NoLoan]
    /\ installments = [l \in LoanIds |-> <<>>]
    /\ approved = {}
    /\ gone = {}
    /\ call = [p \in Callers |-> Idle]
    /\ contested = {}

Begin(p) ==
    \/ \E e \in Employees : \/ \E l \in LoanIds, total \in Totals : Create(p, l, e, total)
                            \/ RequestBegin(p, e)
    \/ \E l \in LoanIds : \/ \E dto \in Dtos, start \in Starts : ApproveBegin(p, l, dto, start)
                          \/ RemoveBegin(p, l)

Proceed(p) ==
    \/ \E l \in LoanIds, total \in Totals : RequestInsert(p, l, total)
    \/ ApproveCommit(p) \/ RemoveDelete(p) \/ Abort(p)

Next ==
    \/ \E p \in Callers : Begin(p) \/ Proceed(p)
    \/ \E e \in Employees : RemoveEmployee(e)
    \/ \E month \in Months, seen \in SUBSET LoanIds : PayrollApproved(month, seen)

Spec == Init /\ [][Next]_vars

-----------------------------------------------------------------------------
\* Rows and calls have the values the schema and the services give them.
TypeOK ==
    /\ loan \in [LoanIds -> LoanRow]
    /\ installments \in [LoanIds -> Seq(InstallmentRow)]
    /\ approved \subseteq Months
    /\ gone \subseteq Employees
    /\ call \in [Callers -> Call]
    /\ contested \subseteq LoanIds

Amounts(rows) == [i \in DOMAIN rows |-> rows[i].amount]
Deducted(rows) == [i \in DOMAIN rows |-> IF rows[i].status = "DEDUCTED" THEN rows[i].amount ELSE 0]

SumsUp(l) ==
    Total(Amounts(installments[l])) =
        IF loan[l].status \in {"APPROVED", "PAID_OFF"} THEN loan[l].total ELSE 0

\* The installments of a loan come to its total amount, and only a loan that was approved
\* has any, whatever calls are in flight: unless two of them decide on this same loan
\* (approve's transaction, remove and the cascade of an employee's removal).
Reconciles == \A l \in LoanIds \ contested : SumsUp(l)

\* A loan that payroll has marked PAID_OFF was repaid to the cent: the
\* deductions from the payslips come to its total amount.
PaidOffIsRepaid ==
    \A l \in LoanIds \ contested : loan[l].status = "PAID_OFF" =>
        Total(Deducted(installments[l])) = loan[l].total

\* The dates of a schedule do not drift: two installments are as many months apart as
\* their places, to within the month that setUTCMonth carries the end of a long month
\* over, and exactly so when the first is due by the 28th.  No month collects three.
KeepsPace(rows) ==
    \A i, j \in DOMAIN rows : i < j =>
        LET gap == rows[j].due.month - rows[i].due.month
        IN  /\ gap \in {j - i - 1, j - i, j - i + 1}
            /\ rows[1].due.day <= 28 => gap = j - i
SteadyDates == \A l \in LoanIds \ contested : KeepsPace(installments[l])

-----------------------------------------------------------------------------
(* What the repository says of loans and its code does not do.             *)

\* "The schedule always reconciles to the exact total" (approve).
AlwaysReconciles == \A l \in LoanIds : SumsUp(l)

\* "each following one is +1 month": consecutive installments are due in consecutive
\* months, so that no month collects two of them (approve, addUtcMonths).
MonthByMonth ==
    \A l \in LoanIds : \A i \in 1 .. Len(installments[l]) - 1 :
        installments[l][i + 1].due.month = installments[l][i].due.month + 1
=============================================================================
