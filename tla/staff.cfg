\* Creations and a change of the policy, syncs one at a time; payslips; the page with a creation.
SPECIFICATION StaffSpec
CONSTANTS
    h1 = h1
    h2 = h2
    e1 = e1
    e2 = e2
    e3 = e3
    u1 = u1
    u2 = u2
    u3 = u3
    c1 = c1
    c2 = c2
    Employees = {e1, e2, e3}
    Callers = {h1, h2}
    Caps = {1, 2}
    Syncs = {h1, h2, "policy"}
    Kinds = 2
    Amounts = {1}
    Slots = 2
    SyncAlone = TRUE
    Areas = {"seats", "allowances", "pay", "page"}
    Hires = 2
    Edited = 1
    Staff = {"ann", "bob"}
    Depts = {"d1", "d2"}
    DeptNames = {"sales", "ops", "legal"}
    NoDept = NoDept
    Editors = {"x", "y"}
    Users = {u1, u2, u3}
    Custom = {"hr"}
    Actors = {"x", "y"}
    Unit = 2880000
    Days = {1, 2}
    Weekend = {2}
    Contracts <- SomeContracts
    DayRows <- SomeDays
    GrantLists <- SomeGrants
    PartLists <- SomeParts
    LoanSums = {0, 20}
    Policies <- SomePolicies
    PageCycles = {c1, c2}
    NoCycle = NoCycle
    Filters = {"ALL", "REVIEW"}
    Opening = {"none", "REVIEW"}
    MaxActs = 0
SYMMETRY Symmetry
INVARIANTS SeatsBounded PolicyIsPaid SlipAddsUp OvertimeOnce AbsenceNeverPays ShowsSelected
CHECK_DEADLOCK FALSE
