CONSTANTS
  f1 = f1
  w1 = w1
  w2 = w2
  r1 = r1
  r2 = r2
  Row = r1
  Num = r1
  Files = {f1}
  Workers = {w1, w2}
  Faults = {"read", "apply", "sync", "mark", "undo"}
  MaxEdits = 2
  MaxEpoch = 2
  MaxSeq = 1
  MaxFaults = 2
  MaxCrashes = 1
  MaxLsn = 8
  MaxRetry = 2
SPECIFICATION Spec
PROPERTY AcceptedInOrder
SYMMETRY Perms
CHECK_DEADLOCK FALSE
