SPECIFICATION Spec
CONSTANTS
    Tasks = {t1, t2, t3}
    Callers = {k1, k2}
    NoTask = NoTask
SYMMETRY Symmetric
INVARIANTS
    TypeOK
    NoCircle
PROPERTIES
    ClosesOverClosed
    LeavesNothingBehind
    StopsForCause
CHECK_DEADLOCK FALSE
