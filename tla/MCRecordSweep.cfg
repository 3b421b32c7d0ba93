SPECIFICATION Spec
CONSTANTS
  ApiRuns = {a1, a2}
  SweepRuns = {m1}
  Targets = {t1}
  Disputes = {d1}
  Levels = {}
  None = None
  MaxCopies = 0
  FailingReads = FALSE
  NameOnly = TRUE
SYMMETRY Symmetry
INVARIANTS
  FindingsBacked
CHECK_DEADLOCK FALSE
