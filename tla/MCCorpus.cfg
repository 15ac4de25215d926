SPECIFICATION FairSpec
CONSTANTS
  Curated = {"curated"}
  Private = {"private"}
  Prompts = {"our words", "their words"}
  NormalizePayload <- HashOf
  Unreadable = "unreadable"
  Syncers = {"loop", "cli"}
  Loop = "loop"
  Replies <- Everyday
  Starter <- StarterPack
  SeedBelow = 1
  Uploads <- UploadedEntries
  Shared <- SharedEntries
  MaxPacks = 2
INVARIANT UpToDateIsMerged
INVARIANT ShipsOnlyCurated
PROPERTY RemoteArrives
