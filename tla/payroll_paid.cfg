\* One request at a time: revertToDraft, then moveToReview and approve.
CHECK_DEADLOCK FALSE
SPECIFICATION FaultFreeSpec
CONSTANTS
    p1 = p1
    p2 = p2
    c1 = c1
    c2 = c2
    c3 = c3
    None = None
    Callers <- OneCaller
    CycleIds <- TwoCycles
    Months <- TwoMonths
    Employees = {"emp1"}
    Loans = {"loan1"}
    Installments = {"i1", "i2"}
    Borrower <- OneLoanBorrower
    LoanOf <- OneLoanOf
    Due <- OneLoanDue
SYMMETRY Symmetry
INVARIANT PaidIsDeducted
