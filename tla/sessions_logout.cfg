\* One tab; no fetch fails.
SPECIFICATION Spec
CONSTANTS
    t1 = t1
    t2 = t2
    None = None
    Tabs = {t1}
    Browsers = {"home"}
    BrowserOf <- OneBrowser
    Ops = {"login", "logout", "change", "call"}
    Desks = {1}
    Faults = FALSE
INVARIANT LoggedOutStaysOut
