SPECIFICATION Spec
CONSTANTS
    h1 = h1
    h2 = h2
    h3 = h3
    k1 = k1
    p1 = p1
    p2 = p2
    Attempts = {h1, h2}
    Ids = {k1}
    Params = {p1, p2}
    NoRow = NoRow
    Null = Null
    NoAttempt = NoAttempt
    Retention = 1
    MaxWall = 1
INVARIANTS
    InFlightIsRunning
CHECK_DEADLOCK FALSE
