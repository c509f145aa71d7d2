CONSTANTS
    WorkerIds = {w1, w2}
    Timers = {t1}
    Sleepers = {Main, w1}
    Main = Main
    ObjectTag = ObjectTag
    MaxMessages = 1
    None = None
SPECIFICATION FairSpec
INVARIANTS
    CallbacksInTime
    OrderlyClose
PROPERTIES
    WorkersReleased
    TimersEnd
CHECK_DEADLOCK FALSE
