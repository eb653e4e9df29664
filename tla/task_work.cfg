SPECIFICATION Spec
CONSTANTS
    e1 = e1
    e2 = e2
    r1 = r1
    a1 = a1
    host = host
    guest = guest
    NoClaim = NoClaim
    Sessions = {e1, e2, r1, a1}
    RoleOf <- RoleOfCrew
    Owner <- OwnerOfCrew
    Creator = host
    Mortal = {e1}
    Planned = 1
    MaxSteps = 2
    MaxVerdicts = 1
INVARIANTS
    TypeOK
    ReviewMeansDone
    OneAssignee
    ReviewIsQueued
PROPERTIES
    OwnerKeepsClaim
CHECK_DEADLOCK FALSE
