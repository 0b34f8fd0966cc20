SPECIFICATION FairSpec
CHECK_DEADLOCK FALSE
CONSTANTS
  MaxProcesses = 1
  Kinds = {"OWN", "MATERIAL"}
  Budgeted = FALSE
  CanAsk = TRUE
  Watched = TRUE
  MaxExchanges = 2
  MaxTasks = 5
  MaxMessages = 2
  MaxStops = 0
  MaxRuns = 0
  MaxCrashes = 0
  MaxFaults = 0
  MaxResends = 0
  MaxDetaches = 0
PROPERTIES
  EveryMessageServed
