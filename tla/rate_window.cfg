SPECIFICATION Spec
CONSTANTS
  Clients = {alice, bob}
  Requests = {r1, r2}
  NoBucket = NoBucket
  PerMinute = 2
  Delays <- SomeDelays
  MaxTime = 632
  MaxLag = 45
  MaxDecisions = 4
SYMMETRY Symmetry
INVARIANTS
  WindowBound
  SweepInvisible
