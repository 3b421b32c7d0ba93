SPECIFICATION Spec
CONSTANTS
  Sources <- MCSources
  Replies <- MCReplies
  CategoryOf <- MCCategoryOf
  SeverityOf <- MCSeverityOf
  Points <- MCPoints
  AutoSignals <- MCAutoSignals
  Timeless <- MCAutoSignals
  Undated <- MCUndated
  LastAge <- MCLastAge
  FreqExempt <- MCFreqExempt
  Precedence <- MCPrecedence
  SatisfiedBy <- MCSatisfiedBy
  Gates <- MCGates
  Sanctions <- MCSanctions
  Planned <- MCPlanned
  Discount <- MCDiscount
  Years = 3
  None = None
  MaxRefutes = 1
INVARIANTS
  KnockoutHolds
PROPERTIES
  FixIsRewarded
  AgeingSoftens
  CoverageOnlyLimits
CHECK_DEADLOCK FALSE
