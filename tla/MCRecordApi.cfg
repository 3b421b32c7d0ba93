SPECIFICATION Spec
CONSTANTS
  ApiRuns = {a1, a2}
  SweepRuns = {}
  Targets = {t1}
  Disputes = {d1, d2}
  Levels = {high}
  None = None
  MaxCopies = 1
  FailingReads = FALSE
  NameOnly = TRUE
SYMMETRY Symmetry
INVARIANTS
  AcceptedHonoured
  AdjudicationFinal
  CardIsOneRun
  DeclarationDurable
CHECK_DEADLOCK FALSE
