SPECIFICATION FairSpec
CONSTANTS
  Clients <- MCClients
  Admins <- MCAdmins
  Keys <- MCKeys
  Capacity = 1
  QueueCap = 2
  TTL = 1
  MaxTime = 2
  MaxReplies = 2
INVARIANT TypeOK
PROPERTY ServedWithinTTL
PROPERTY QueuedIsWritten
