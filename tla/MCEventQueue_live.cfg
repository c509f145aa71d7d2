CONSTANTS
    c1 = c1
    c2 = c2
    Callers <- MCCallers
    Owner = Owner
    NoCall = NoCall
    MaxCalls = 1
    Quota <- MCQuota
SPECIFICATION FairSpec
PROPERTIES
    CallsReturn
    CloseReleases
CHECK_DEADLOCK FALSE
