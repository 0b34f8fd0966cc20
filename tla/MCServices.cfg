SPECIFICATION Spec
CONSTANTS
  Accounts = {"a", "b"}
  Persons = {1, 2, 3}
  Requests = {first, second}
  Caps = {1, 2}
  MaxKnocks = 3
  MaxOrders = 1
  Callers = {"a", "b", "c"}
  TextLists <- EmbeddedTexts
  MaxEntries = 1
  MaxCalls = 4
  MaxCacheMishaps = 1
  Params = {"p"}
  Hosts = {"h", "g"}
  Public = {"h"}
  Documents <- EndpointDocuments
  MaxPages = 1
  MaxEdits = 2
  Tasks = {"t", "u"}
  Answers = {"t"}
  Questions = {"q"}
  Subscribers = {"s"}
  SUBSCRIBER_QUEUE_SIZE = 2
  Outcomes = {"DONE"}
  MaxMishaps = 1
  MaxAttaches = 1
SYMMETRY Symmetry
INVARIANTS
  CapKept
  OnePersonPerAccount
  SharedOnce
  EveryPageGuarded
  SecretStaysBound
  NothingOwedIsLost
  LogIsWhole
  ContextIsWhole
  FetchedDataIsTrue
  KnowledgeIsTrue
  LimitsHold
  PeopleKeepTheirs
  
PROPERTIES
  BanStands
  ImplementsDelivery
  NothingIsTakenBack
CHECK_DEADLOCK FALSE
