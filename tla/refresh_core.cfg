CONSTANTS
  f1 = f1
  w1 = w1
  w2 = w2
  r1 = r1
  r2 = r2
  Row = r1
  Num = r1
  Files = {f1}
  Workers = {w1}
  Faults = {"seen", "parse", "append", "merge", "commit", "publish", "undo"}
  MaxEdits = 2
  MaxEpoch = 1
  MaxSeq = 2
  MaxFaults = 2
  MaxCrashes = 1
  MaxLsn = 8
  MaxRetry = 2
SPECIFICATION FairSpec
INVARIANT TypeOK
INVARIANT CommittedInGraph
INVARIANT AnsweredVisible
PROPERTY DeleteReachesGraph
CHECK_DEADLOCK FALSE
