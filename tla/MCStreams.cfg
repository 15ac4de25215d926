CONSTANTS
  Tokens = {"w", "n", "m1", "m2", "u"}
  Indices = {1, 2}
  Protocols = {"openai", "anthropic", "gemini", "unary"}
  Replies <- MCReplies
  PreviousTurns <- MCPreviousTurns
  Capacity = 1
  HoldBack = 1
  StallLength = 0
  NoiseLength = 2
  MaxChunks = 3

SPECIFICATION FairSpec
INVARIANT ClientGetsReply
INVARIANT ReplyComplete
PROPERTY WellFormed
PROPERTY Settles
CHECK_DEADLOCK FALSE
