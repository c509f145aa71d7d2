CONSTANTS
    N = 4
    Names = {n1, n2}
    Null = Null
SPECIFICATION Spec
INVARIANTS
    HeirsOfEntries
    ResolvedUncontested
PROPERTY RemovesParents
CHECK_DEADLOCK FALSE
