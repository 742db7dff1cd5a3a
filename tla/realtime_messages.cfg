SPECIFICATION Spec
CONSTANTS
  c1 = c1
  c2 = c2
  d = d
  r = r
  Clients = {c1, c2}
  Deployer = d
  Readers = {r}
  MaxDeployments = 2
  MaxMessages = 1
SYMMETRY Symmetry
INVARIANTS
  InOrder
  
  NotFromBefore
  GoneIsForgotten
  WatchersAreDismissed
CHECK_DEADLOCK FALSE
