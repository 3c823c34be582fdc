\* Two calls in flight about one request; any call may be cut short.
SPECIFICATION Spec
CONSTANTS
    p1 = p1
    p2 = p2
    r1 = r1
    None = None
    Callers <- TwoCallers
    RequestIds <- OneRequest
    Employees = {"e", "m"}
    Users <- Staff
    EmployeeOf <- StaffFile
    Owners = {"owner"}
    Approvers = {"boss", "hr"}
    Handlers = {"hr"}
    Portal = {"sara"}
SYMMETRY Symmetry
INVARIANTS TwoLevelApproval ReviewerDecided OutcomeNotified
