SPECIFICATION Spec
CONSTANTS
  w1 = w1
  w2 = w2
  r1 = r1
  r2 = r2
  Workers = {w1, w2}
  Deletions = {r1, r2}
  MaxDeployments = 4
  MaxFaults = 0
  MaxCrashes = 0
  MaxRemovals = 0
INVARIANTS
  ActiveIsServed
PROPERTIES
  ReadersMoveForward
CHECK_DEADLOCK FALSE
