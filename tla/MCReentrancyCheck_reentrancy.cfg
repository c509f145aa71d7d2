CONSTANTS
    Threads = {t1, t2, t3}
    None = None
    MaxDepth = 4
SPECIFICATION Spec
INVARIANTS
    NoOverlap
    NoFalseAlarm
    DepthOfOwner
CHECK_DEADLOCK FALSE
