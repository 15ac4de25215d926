SPECIFICATION FairSpec
CONSTANTS
  Clients = {"c"}
  Requests <- Asked
  Wordings = {"coder"}
  Before = {"nothing", "talk"}
  Memory = {"m"}
  Near <- Similar
  Eligible = {"how", "how to"}
  Embedders = {"fastlocal", "ollama"}
  Dimension <- Dimensions
  Sharable = {"how"}
  Standalone <- Asking
  MaxReplies = 1
INVARIANT HitInScope
PROPERTY CandidatesFollowGate
PROPERTY TextsFollowRows
