SPECIFICATION Spec
CONSTANTS
  JobIds = {j1, j2}
  Subscribers = {s1}
  Progress = {a}
  END = END
  MaxProgress = 1
INVARIANTS
  TerminalIsLast
CHECK_DEADLOCK FALSE
