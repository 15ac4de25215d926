SPECIFICATION FairSpec
CONSTANTS
  FailureThreshold = 1
  SuccessThreshold = 1
  BaseCooldown = 1
  MaxCooldown = 1
  RecheckTTL = 1
  Requests <- MCRequests
  Targets <- MCTargets
  Chain <- MCChain
  Live <- MCLive
  Unfit <- MCUnfit
  Barred <- MCBarred
  Troubled <- MCTroubled
  MaxContinuations = 1
PROPERTY ClaimDelivered
PROPERTY SkippedMeansUncalled
PROPERTY KeepsContract
