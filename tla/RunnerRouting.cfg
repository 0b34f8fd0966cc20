SPECIFICATION Spec
CHECK_DEADLOCK FALSE
CONSTANTS
  MaxProcesses = 2
  Kinds = {"OWN"}
  Budgeted = TRUE
  CanAsk = TRUE
  Watched = TRUE
  MaxExchanges = 2
  MaxTasks = 4
  MaxMessages = 2
  MaxStops = 2
  MaxRuns = 0
  MaxCrashes = 0
  MaxFaults = 0
  MaxResends = 0
  MaxDetaches = 0
INVARIANTS
  TypeOK
  InProgressIsOwed
  StopCoversRouting
