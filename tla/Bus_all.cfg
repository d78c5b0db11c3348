SPECIFICATION LiveSpec
CONSTANTS
  g1 = g1
  g2 = g2
  w1 = w1
  nested = nested
  plain = plain
  closing = closing
  t1 = t1
  t2 = t2
  Outside <- TwoOutside
  Workers <- OneWorker
  PerWorker = 1
  Handlers <- ThreeKinds
  Topics <- TwoTopics
  Listens <- WhoListens
  Publishing <- Nesting
  Closing <- ClosingOnes
  MaxPublish = 3
INVARIANTS
  CloseIsClean
PROPERTIES
  HangsOnlyWedged
CHECK_DEADLOCK FALSE
