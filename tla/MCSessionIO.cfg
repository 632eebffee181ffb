SPECIFICATION FairSpec
CONSTANTS
  MaxMsgs = 3
  MaxFrames = 2
  TooLong = {2, 4}
  Notice = Notice
  None = None
INVARIANTS
  SessionInv
  WireInOrder
  LateOnlyAfterWriter
PROPERTIES
  IdleCloseIsClean
  Released
  IdleCloses
CHECK_DEADLOCK FALSE
