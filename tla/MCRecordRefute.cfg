SPECIFICATION Spec
CONSTANTS
  ApiRuns = {a1, a2}
  SweepRuns = {}
  Targets = {t1}
  Disputes = {d1}
  Levels = {high}
  None = None
  MaxCopies = 1
  FailingReads = FALSE
  NameOnly = FALSE
SYMMETRY Symmetry
INVARIANTS
  RefuteRescores
CHECK_DEADLOCK FALSE
