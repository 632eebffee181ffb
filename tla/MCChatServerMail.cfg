SPECIFICATION Spec
CONSTANTS
  s1 = s1
  s2 = s2
  w1 = w1
  w2 = w2
  None = None
  Sessions = {s1, s2}
  Workers = {w1, w2}
  Stores = {"none", "file", "mysql"}
  Names <- MCNames
  Users = {"ann", "ann2"}
  Rooms = {"lobby"}
  Lobby = "lobby"
  BotNames = {}
  MaxSuffix <- MCMaxSuffix
  Candidate <- MCCandidate
  MaxMsgs = 2
  MaxFaults = 1
CHECK_DEADLOCK FALSE
SYMMETRY Symmetry
INVARIANTS
  MessagesConserved
  NoForeignDelivery
  StoredOrder
  NoStranded
PROPERTIES
  ImplementsMessaging
