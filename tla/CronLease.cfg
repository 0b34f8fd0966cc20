SPECIFICATION FairSpec
CONSTANTS
  Jobs = {j1}
  Schedulers = {s1, s2}
  s1 = s1
  s2 = s2
  j1 = j1
  Nobody = Nobody
  TTL = 1
  ReplayLimit = 1
  MaxOccurrences = 2
  MaxTroubles = 2
  MaxEdits = 1
INVARIANTS
 OneFirerPerJob
 FiredOnce
PROPERTIES DueIsServed
