SPECIFICATION Spec
CONSTANTS
  Sources <- MCSources
  Replies <- MCReplies
  CategoryOf <- MCCategoryOf
  SeverityOf <- MCSeverityOf
  Points <- MCPoints
  AutoSignals <- MCAutoSignals
  Timeless <- MCAutoSignals
  Undated <- MCUndated
  LastAge <- MCLastAge
  FreqExempt <- MCFreqExempt
  Precedence <- MCPrecedence
  SatisfiedBy <- MCSatisfiedBy
  Gates <- MCGates
  Sanctions <- MCSanctions
  Planned <- MCPlanned
  Discount <- MCDiscount
  Years = 3
  None = None
  MaxRefutes = 0
INVARIANTS
  CertainCriticalPublished
  AmbiguousBlocks
  ItemisedIsCharged
PROPERTY
  RemediationNeverCosts
CHECK_DEADLOCK FALSE
