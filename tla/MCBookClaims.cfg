SPECIFICATION Spec
CONSTANTS
  None = None
  Vendors <- MCCrowd
  Subjects = {"acme"}
  Swept = {"acme"}
  Opening <- MCCrowdOpening
  Scores <- MCScores
  Evidence <- MCCrowdEvidence
  Corrections <- MCCorrections
  Declared <- MCCrowdDeclared
  SourceOf <- MCSourceOf
  Costly <- MCCostly
  RecheckOf <- MCRecheckOf
  Chain = 2
  Cites <- MCCites
  MaxRuns = 1
  MaxPlacements = 0
  MaxEvents = 0
  MaxAnalyses = 1
  MaxCorrections = 0
  CohortLadder <- MCLadder
  CohortFloor <- MCFloor
  SizeOrder <- MCSizeOrder
  HeadBounds <- MCHeadBounds
  RevenueBounds <- MCRevenueBounds
  SizeRule = "max"
  Rates <- MCRates
  Groups <- MCGroups
  MinQuartile = 8
  MinPercentile = 30
  MinDomain = 8
  MinObservations = 8
  CadenceDays <- MCCadenceDays
  RecheckDays <- MCRecheckDays
  Frameworks <- MCFrameworks
  Credit <- MCCredit
  Gamma = 10
  MinAssurity = 1
CHECK_DEADLOCK FALSE
INVARIANTS LoneFailureIsDriver InventedIsDropped
