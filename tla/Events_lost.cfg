SPECIFICATION Spec
CONSTANTS
  s1 = s1
  s2 = s2
  a = a
  NoId = NoId
  Sessions <- TwoSessions
  Ids <- OneId
  RestoresId = FALSE
  MaxVersion = 4
  SnapshotEvery = 2
  Faults <- NoFault
  MaxFaults = 0
INVARIANTS
  AckedIsFound
