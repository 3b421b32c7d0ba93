SPECIFICATION FairSpec
CONSTANTS
  JobIds = {j1, j2}
  Subscribers = {s1, s2}
  Progress = {a}
  END = END
  MaxProgress = 1
INVARIANTS
  NoGapNoDup
  EndedIsComplete
  OutcomeAgrees
PROPERTIES
  FinishedIsFinal
  StreamsEnd
  ImplementsFeed
CHECK_DEADLOCK FALSE
