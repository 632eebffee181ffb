SPECIFICATION Spec
CONSTANTS
  s1 = s1
  s2 = s2
  None = None
  Texts <- MCTexts
  Unset = Unset
  Nothing = Nothing
  Sessions = {s1, s2}
  Names <- MCNames
  Users <- MCUsers
  Rooms <- MCRooms
  Lobby = "lobby"
  BotNames <- MCBotNames
  MaxSuffix <- MCMaxSuffix
  Candidate <- MCCandidate
  File <- MCFile
  Lower <- MCLower
  TooLong = {3, 6}
  BusinessThreads = 2
  MaxRequests = 5
  MaxAsks = 2
CHECK_DEADLOCK FALSE
INVARIANTS
  RoomChatInv
  RegistryInv
  SenderOrder
  QuestionBeforeAnswer
  HistoryOrdered
PROPERTIES
  AskedIsAnswered
