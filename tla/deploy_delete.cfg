SPECIFICATION Spec
CONSTANTS
  w1 = w1
  w2 = w2
  r1 = r1
  r2 = r2
  Workers = {w1}
  Deletions = {r1}
  MaxDeployments = 2
  MaxFaults = 0
  MaxCrashes = 0
  MaxRemovals = 0
PROPERTIES
  LoadingIsKept
CHECK_DEADLOCK FALSE
