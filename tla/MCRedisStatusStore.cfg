SPECIFICATION Spec
CONSTANTS
  Callers = {u1, u2, u3}
  Connections = {c1, c2}
  None = None
  MaxCalls = 4
  MaxFaults = 2
CHECK_DEADLOCK FALSE
INVARIANTS StatusInv
PROPERTIES StaleStatusExpires
