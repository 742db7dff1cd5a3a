SPECIFICATION Spec
CONSTANTS
  w1 = w1
  w2 = w2
  r1 = r1
  r2 = r2
  Workers = {w1, w2}
  Deletions = {r1}
  MaxDeployments = 3
  MaxFaults = 1
  MaxCrashes = 1
  MaxRemovals = 1
SYMMETRY Symmetry
INVARIANTS
  ServedIsComplete
  
  SingleDeployer
  KeyHasOwner
  OutcomeFitsIndex
PROPERTIES
  OutcomeIsFinal
CHECK_DEADLOCK FALSE
