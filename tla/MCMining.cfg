SPECIFICATION FairSpec
CONSTANTS
  Workers <- MCWorkers
  Total = 2
  Inserts = 1
  MaxRetries = 1
  MaxSessions = 2
INVARIANT StoppableWhileRunning
INVARIANT SessionAccounted
PROPERTY SessionEnds
CHECK_DEADLOCK FALSE
