SPECIFICATION Spec
CONSTANTS
  Vendors = {1, 2}
  Timer = timer
  Hands = {hand}
  Exposures <- Declared
  Domainless = {}
  CanFail <- Fails
  SourceOf <- Source
  RecheckOf <- Asks
  CadenceDays <- Days
  RecheckDays <- Recheck
  None = None
  Tolerance = 0
  Window = 2
  MaxFaults = 1
  MaxSweep = 0
PROPERTY
  ChargedUntilFixed
CHECK_DEADLOCK FALSE
