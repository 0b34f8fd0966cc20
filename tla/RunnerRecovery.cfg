SPECIFICATION FairSpec
CHECK_DEADLOCK FALSE
CONSTANTS
  MaxProcesses = 1
  Kinds = {"OWN"}
  Budgeted = FALSE
  CanAsk = FALSE
  Watched = TRUE
  MaxExchanges = 1
  MaxTasks = 3
  MaxMessages = 1
  MaxStops = 0
  MaxRuns = 1
  MaxCrashes = 1
  MaxFaults = 0
  MaxResends = 0
  MaxDetaches = 1
INVARIANTS
  OutcomeOnItsWay
  OnlyReachedIsDelivered
PROPERTIES
  OpenIsPickedUp
  OutcomeDelivered
