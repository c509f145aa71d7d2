SPECIFICATION Spec
CONSTANTS
    Objects = {o1, e1}
    Errors = {e1}
    VarRefs = {v1}
    Slots = {s1, s2}
    MaxHeld = 1
    None = None
    Threads = {t1, t2}
    MaxLeaks = 1
INVARIANTS
    Balanced
    NoDangling
    AssertsHold
    NothingLeftBehind
PROPERTIES
    ExactlyGarbage
    OwnException
SYMMETRY Symmetry
