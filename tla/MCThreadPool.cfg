SPECIFICATION FairSpec
CONSTANTS
  w1 = w1
  w2 = w2
  w3 = w3
  c1 = c1
  c2 = c2
  Control = Control
  None = None
  Workers = {w1, w2, w3}
  Submitters = {c1, c2}
  MaxTasks = 4
  MaxStarts = 2
INVARIANTS
  AcceptedRunsOnce
  PoolInv
PROPERTIES
  StopDrains
  AcceptedRuns
  StopReturns
CHECK_DEADLOCK FALSE
