SPECIFICATION CacheSpec
CONSTANTS
    a = a
    b = b
    c = c
    w1 = w1
    w2 = w2
    Workspaces = {a, b}
    Workers = {w1, w2}
    Capacity = 1
    MaxManagers = 3
    MaxGen = 2
SYMMETRY Perms
INVARIANTS
    CacheTypeOK
    GenerationsDistinct
    QueueCleared
CHECK_DEADLOCK FALSE
