SPECIFICATION Spec
CONSTANTS
  s1 = s1
  s2 = s2
  a = a
  NoId = NoId
  Sessions <- TwoSessions
  Ids <- OneId
  RestoresId = TRUE
  MaxVersion = 4
  SnapshotEvery = 2
  Faults <- EveryFault
  MaxFaults = 2
INVARIANTS
  ReplayAgrees
  ReplayIsShort
PROPERTIES
  KeepsPromise
