CONSTANTS
    Asked <- MCAsked
    Files <- MCFiles
    Roots <- MCRoots
    MaxRuns = 3
    MaxLoads = 4
SPECIFICATION Spec
INVARIANTS
    CompleteOnly
    ResolvesRight
    OneModulePerFile
PROPERTY EvaluatedOnce
CHECK_DEADLOCK FALSE
