SPECIFICATION FairSpec
CONSTANTS
  Jobs = {j1, j2, j3}
  Requests = {q1, q2}
  None = None
  PoolSize = 2
INVARIANTS
  NoLeak
PROPERTY
  EveryoneEnds
CHECK_DEADLOCK FALSE
