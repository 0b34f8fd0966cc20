SPECIFICATION Spec
CHECK_DEADLOCK FALSE
CONSTANTS
  MaxProcesses = 2
  Kinds = {"OWN", "MATERIAL"}
  Budgeted = FALSE
  CanAsk = TRUE
  Watched = TRUE
  MaxExchanges = 2
  MaxTasks = 3
  MaxMessages = 2
  MaxStops = 0
  MaxRuns = 0
  MaxCrashes = 0
  MaxFaults = 2
  MaxResends = 1
  MaxDetaches = 0
INVARIANTS
  NoQuestionLost
PROPERTIES
  MessageJoinsOnce
