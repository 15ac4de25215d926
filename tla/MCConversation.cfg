SPECIFICATION Spec
CONSTANTS
  Sources = {"anthropic", "openai"}
  Replies <- MCReplies
  Tools <- MCTools
  FileTools = {"Read"}
  Outcomes = {"big", "failed"}
  RecentTurnsToKeep = 1
  MaxMessages = 6
INVARIANT PayloadWellFormed
INVARIANT NothingLost
INVARIANT ContextKept
INVARIANT NoCallShown
INVARIANT PlanFirst
INVARIANT LoopBroken
CHECK_DEADLOCK FALSE
