SPECIFICATION FairSpec
CONSTANTS
    f1 = f1
    f2 = f2
    t1 = t1
    t2 = t2
    Files <- TwoFiles
    Threads <- TwoThreads
    NoThread = NoThread
    NoFile = NoFile
    MaxEdits = 3
    MaxFaults = 1
INVARIANTS
    TypeOK
    ChangeNoticed
    HandshakeHeld
PROPERTIES
    ChangesRead
CHECK_DEADLOCK FALSE
