SPECIFICATION FairSpec
CONSTANTS
  Runs = {r1}
  Collectors = {c1, c2, c3}
  Second = 1
  Gain = 2
  Cost = 5
  Ceiling = 1
  MaxRequests = 2
  MaxTime = 6
INVARIANTS
  Throttled
  SleptEnough
PROPERTIES
  Served
CHECK_DEADLOCK FALSE
