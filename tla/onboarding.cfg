\* One tab; the owner stops at the dashboard.
SPECIFICATION FairSpec
CONSTANTS
    t1 = t1
    t2 = t2
    None = None
    Tabs = {t1}
    MaxFaults = 2
    MaxDetours = 2
INVARIANT NeverAhead
PROPERTIES RedirectsSettle OwnerArrives
CHECK_DEADLOCK FALSE
