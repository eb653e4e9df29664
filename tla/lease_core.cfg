SPECIFICATION HolderSpec
CONSTANTS
    a1 = a1
    a2 = a2
    s1 = s1
    s2 = s2
    Agents = {a1, a2}
    Sessions = {s1}
    Governors = {a1, a2}
    NoSession = NoSession
    CanonRole = "executor"
    Variants = {"executor", "implementer", "tester"}
    Legacy <- NoRows
    Ttls = {1}
    Stale = 1
    WallSteps = 1
    MaxWall = 2
    MaxLeases = 2
SYMMETRY AgentSymmetry
INVARIANTS
    TypeOK
PROPERTIES
    ExpiryFinal
    ImplementsFencedResource
    HolderProtected
