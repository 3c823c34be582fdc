\* Two calls at a time, about two loans.
SPECIFICATION Spec
CONSTANTS
    p1 = p1
    p2 = p2
    l1 = l1
    l2 = l2
    e1 = e1
    e2 = e2
    None = None
    DaysIn <- Year
    Callers = {p1, p2}
    LoanIds = {l1, l2}
    Employees = {e1, e2}
    Totals = {1, 5}
    Dtos <- BothWays
    Starts <- AnyDay
    Months = {0, 2}
SYMMETRY Symmetry
INVARIANTS Reconciles SteadyDates
PROPERTIES KeepsPromise
CHECK_DEADLOCK FALSE
