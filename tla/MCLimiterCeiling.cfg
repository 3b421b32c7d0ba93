SPECIFICATION Spec
CONSTANTS
  Runs = {r1, r2, r3, r4}
  Collectors = {filings}
  Second = 4
  Gain = 1
  Cost = 1
  Ceiling = 10
  MaxRequests = 3
  MaxTime = 0
SYMMETRY Symmetry
INVARIANT
  UnderCeiling
CHECK_DEADLOCK FALSE
