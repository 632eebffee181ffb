SPECIFICATION StoresSpec
CONSTANTS
  w1 = w1
  w2 = w2
  None = None
  Workers = {w1, w2}
  Messages <- MCMessages
  Users = {"ann", "bob"}
  To <- MCTo
  MaxTakes = 2
  MaxFaults = 0
  Types = {"file"}
  PoolSize = 1
CHECK_DEADLOCK FALSE
INVARIANTS SavedNotLost
