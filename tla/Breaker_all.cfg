SPECIFICATION BreakerLiveSpec
CONSTANTS
  c1 = c1
  c2 = c2
  c3 = c3
  Calls <- ThreeCalls
  FailureThreshold = 2
  SuccessThreshold = 3
  Hazards <- Everything
  MaxResets = 2
INVARIANTS
  OneProbe
  NeverWedged
PROPERTIES
  ClosedByProbes
  Recovers
