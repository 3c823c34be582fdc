\* Two requests in flight, about any cycles. The payroll stops when its employees are removed
\* and its cycle ids used up, both of which are bounds.
CHECK_DEADLOCK FALSE
SPECIFICATION Spec
CONSTANTS
    p1 = p1
    p2 = p2
    c1 = c1
    c2 = c2
    c3 = c3
    None = None
    Callers <- TwoCallers
    CycleIds <- TwoCycles
    Months <- TwoMonths
    Employees = {"emp1"}
    Loans = {"loan1"}
    Installments = {"i1", "i2"}
    Borrower <- OneLoanBorrower
    LoanOf <- OneLoanOf
    Due <- OneLoanDue
SYMMETRY Symmetry
INVARIANTS NoDoubleDeduction LinkedInDueMonth DeductedWasPaid
PROPERTIES ImplementsLifecycle KeepsPromise
