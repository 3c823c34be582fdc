\* One tab, whose refresh overlaps its other call; fetches fail.
SPECIFICATION FairSpec
CONSTANTS
    t1 = t1
    t2 = t2
    None = None
    Tabs = {t1}
    Browsers = {"home"}
    BrowserOf <- OneBrowser
    Ops = {"login", "logout", "change", "call"}
    Desks = {1}
    Faults = TRUE
INVARIANTS RevokedStaysRevoked ExecutedOnce
PROPERTIES EveryWaitEnds RevocationReachesTabs
