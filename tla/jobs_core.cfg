SPECIFICATION FairSpec
CONSTANTS
    j1 = j1
    j2 = j2
    j3 = j3
    r1 = r1
    None = None
    Rpc = Rpc
    Jobs = {j1, j2, j3}
    Requests = {r1}
    MaxPanics = 1
    MaxCrashes = 1
INVARIANTS
    TypeOK
    ToldIsFinal
    ToldIsTrue
PROPERTIES
    JobsEnd
CHECK_DEADLOCK FALSE
