SPECIFICATION Spec
CHECK_DEADLOCK FALSE
CONSTANTS
  MaxProcesses = 2
  Kinds = {"OWN"}
  Budgeted = FALSE
  CanAsk = FALSE
  Watched = TRUE
  MaxExchanges = 2
  MaxTasks = 3
  MaxMessages = 2
  MaxStops = 0
  MaxRuns = 2
  MaxCrashes = 0
  MaxFaults = 0
  MaxResends = 0
  MaxDetaches = 0
INVARIANTS
  OneRunPerExchange
  ActiveRunsWithinLimit
PROPERTIES
  LateTerminationIsInert
