SPECIFICATION LiveSpec
CONSTANTS
  i1 = i1
  i2 = i2
  c1 = c1
  c2 = c2
  c3 = c3
  NoOne = NoOne
  Instances <- TwoInstances
  Callers <- ThreeCallers
  At <- SharedAndOwn
  Faults <- Anything
  MaxErrors = 1
  MaxLapses = 2
INVARIANTS
  CounterFollows
  OnlyLateLose
PROPERTIES
  ImplementsMutex
  SomebodyGetsIn
