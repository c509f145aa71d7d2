CONSTANTS
    c1 = c1
    c2 = c2
    Callers <- MCCallers
    Owner = Owner
    NoCall = NoCall
    MaxCalls = 2
    Quota <- MCQuota
SPECIFICATION Spec
INVARIANT PostEventsAlive
CHECK_DEADLOCK FALSE
