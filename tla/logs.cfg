CONSTANTS
  h1 = h1
  h2 = h2
  Handles = {h1}
  Kinds = {"staging", "retry"}
  MaxEntries = 3
  MaxFaults = 2
  MaxCrashes = 2
SPECIFICATION Spec
INVARIANT TypeOK
INVARIANT NoLoss
INVARIANT MarksStay
CHECK_DEADLOCK FALSE
