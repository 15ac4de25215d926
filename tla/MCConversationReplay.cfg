SPECIFICATION Spec
CONSTANTS
  Sources = {"anthropic", "openai"}
  Replies <- MCReplies
  Tools <- MCTools
  FileTools = {"Read"}
  Outcomes = {"big", "failed"}
  RecentTurnsToKeep = 1
  MaxMessages = 6
INVARIANT ReplayIsTheReply
CHECK_DEADLOCK FALSE
