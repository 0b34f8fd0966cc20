SPECIFICATION Spec
CONSTANTS
  Nodes = {"a", "b"}
  MaxBuilds = 3
  MaxContacts = 2
  MaxMishaps = 1
INVARIANTS
  OnlyOwnerAnswers
  NeverOvertaken
  NoSilentRoute
  RunIsSound
PROPERTIES
  RegisteredEndHolding
  DialogStaysAdopted
  TextNeverStalls
  RunsAreNotHeld
CHECK_DEADLOCK FALSE
