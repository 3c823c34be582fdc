\* Two tabs at the dashboard in the end; no call is lost.
SPECIFICATION Spec
CONSTANTS
    t1 = t1
    t2 = t2
    None = None
    Tabs = {t1, t2}
    MaxFaults = 0
    MaxDetours = 1
SYMMETRY Symmetry
INVARIANTS PastBilling DashboardWhenCompleted BillingFirst
CHECK_DEADLOCK FALSE
