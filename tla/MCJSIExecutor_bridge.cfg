CONSTANTS
    Names = {m1, m2}
    Registered = {m1}
    MaxRuns = 2
    MaxCalls = 3
    MaxBatches = 3
    Width = 2
SPECIFICATION FairSpec
INVARIANTS
    NoEmptyCall
    BatchComplete
    InOrder
    QuietWithoutBridge
    OneObjectPerModule
PROPERTIES
    CheckpointEnds
CHECK_DEADLOCK FALSE
