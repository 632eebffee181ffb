SPECIFICATION Spec
CONSTANTS
  Lines <- MCLines
  ReplyLengths <- MCReplyLengths
  MaxTyped = 3
  MaxReplies = 2
  None = None
INVARIANTS ClientInv SentInOrder QuitIsClean
PROPERTIES TypedArrives ProcessEnds
