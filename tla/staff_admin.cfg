\* Two handlers in flight on departments and two on roles; a creation and changes of the policy
\* in any order; a button beside selections, filters and pages.
SPECIFICATION StaffSpec
CONSTANTS
    h1 = h1
    h2 = h2
    e1 = e1
    e2 = e2
    e3 = e3
    u1 = u1
    u2 = u2
    u3 = u3
    c1 = c1
    c2 = c2
    Employees = {e1, e2}
    Callers = {h1}
    Caps = {1, 2}
    Syncs = {h1, "policy"}
    Kinds = 1
    Amounts = {1}
    Slots = 3
    SyncAlone = FALSE
    Areas = {"departments", "roles", "allowances", "page"}
    Hires = 2
    Edited = 0
    Staff = {"ann", "bob"}
    Depts = {"d1", "d2"}
    DeptNames = {"sales", "ops"}
    NoDept = NoDept
    Editors = {"x", "y"}
    Users = {u1, u2, u3}
    Custom = {"hr"}
    Actors = {"x", "y"}
    Unit = 2880000
    Days = {1, 2}
    Weekend = {2}
    Contracts <- SomeContracts
    DayRows <- SomeDays
    GrantLists <- SomeGrants
    PartLists <- SomeParts
    LoanSums = {0, 20}
    Policies <- SomePolicies
    PageCycles = {c1, c2}
    NoCycle = NoCycle
    Filters = {"ALL", "REVIEW"}
    Opening = {"REVIEW"}
    MaxActs = 1
SYMMETRY AdminSymmetry
INVARIANTS OwnNames AlwaysAnOwner AllowancesBounded ShowsSelected
CHECK_DEADLOCK FALSE
