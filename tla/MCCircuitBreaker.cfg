SPECIFICATION BreakerFairSpec
CONSTANTS
  FailureThreshold = 3
  SuccessThreshold = 2
  BaseCooldown = 1
  MaxCooldown = 4
  Callers <- MCCallers
INVARIANT BreakerCoherent
PROPERTY QuietAfterTrip
PROPERTY ClosesOnlyAfterProbing
PROPERTY OpenRecovers
