SPECIFICATION Spec
CONSTANTS
  s1 = s1
  s2 = s2
  w1 = w1
  w2 = w2
  None = None
  Sessions = {s1, s2}
  Workers = {w1, w2}
  Stores = {"file"}
  Names <- MCNames
  Users = {"ann", "ann2"}
  Rooms = {"lobby"}
  Lobby = "lobby"
  BotNames = {}
  MaxSuffix <- MCMaxSuffix
  Candidate <- MCCandidate
  MaxMsgs = 1
  MaxFaults = 0
CHECK_DEADLOCK FALSE
INVARIANTS
  LoginEmptiesStore
