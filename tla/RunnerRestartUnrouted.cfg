SPECIFICATION FairSpec
CHECK_DEADLOCK FALSE
CONSTANTS
  MaxProcesses = 1
  Kinds = {"OWN"}
  Budgeted = FALSE
  CanAsk = FALSE
  Watched = TRUE
  MaxExchanges = 2
  MaxTasks = 4
  MaxMessages = 1
  MaxStops = 0
  MaxRuns = 0
  MaxCrashes = 1
  MaxFaults = 0
  MaxResends = 0
  MaxDetaches = 0
PROPERTIES
  RecordedIsServed
