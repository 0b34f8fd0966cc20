SPECIFICATION Spec
CHECK_DEADLOCK FALSE
CONSTANTS
  MaxProcesses = 2
  Kinds = {"OWN", "MATERIAL"}
  Budgeted = FALSE
  CanAsk = FALSE
  Watched = TRUE
  MaxExchanges = 2
  MaxTasks = 3
  MaxMessages = 2
  MaxStops = 1
  MaxRuns = 0
  MaxCrashes = 0
  MaxFaults = 0
  MaxResends = 0
  MaxDetaches = 0
PROPERTIES
  StoppedCollectionStaysClosed
