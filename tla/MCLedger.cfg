SPECIFICATION FairSpec
CONSTANTS
  Requests <- MCRequests
  Keys <- MCKeys
  KeyOf <- MCKeyOf
  Cost <- MCCost
  MonthlyBudget = 2
  DailyBudget = 1
  MonthLength = 2
  QueueCap = 2
  MaxBatch = 2
  MaxDay = 3
INVARIANT TypeOK
INVARIANT SpendMatchesCharges
INVARIANT ChargedOnlyIfLogged
PROPERTY BlockedOnceSpent
PROPERTY QueuedIsTaken
