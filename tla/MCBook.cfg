SPECIFICATION Spec
CONSTANTS
  None = None
  Vendors <- MCVendors
  Subjects = {"acme"}
  Swept = {"acme", "crux"}
  Opening <- MCOpening
  Scores <- MCScores
  Evidence <- MCEvidence
  Corrections <- MCCorrections
  Declared <- MCDeclared
  SourceOf <- MCSourceOf
  Costly <- MCCostly
  RecheckOf <- MCRecheckOf
  Chain = 2
  Cites <- MCCites
  MaxRuns = 1
  MaxPlacements = 2
  MaxEvents = 2
  MaxAnalyses = 1
  MaxCorrections = 1
  CohortLadder <- MCLadder
  CohortFloor <- MCFloor
  SizeOrder <- MCSizeOrder
  HeadBounds <- MCHeadBounds
  RevenueBounds <- MCRevenueBounds
  SizeRule = "max"
  Rates <- MCRates
  Groups <- MCGroups
  MinQuartile = 2
  MinPercentile = 3
  MinDomain = 2
  MinObservations = 2
  CadenceDays <- MCCadenceDays
  RecheckDays <- MCRecheckDays
  Frameworks <- MCFrameworks
  Credit <- MCCredit
  Gamma = 10
  MinAssurity = 1
CHECK_DEADLOCK FALSE
INVARIANTS Reproducible QuartileIsEarned StrongerRanksNoLower HalvesAgree AnalysisCitesCharged
PROPERTIES OpenDisputeNoted WorseNeverSofter
