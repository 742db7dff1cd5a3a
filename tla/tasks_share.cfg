SPECIFICATION FairSpec
CONSTANTS
  c1 = c1
  c2 = c2
  c3 = c3
  k1 = k1
  k2 = k2
  Callers = {c1, c2, c3}
  Keys = {k1, k2}
  Loops = 1
  MaxTasks = 4
  MaxLeaks = 1
INVARIANTS OneOwner AnswersAreCurrent WaitersHaveOwner
CHECK_DEADLOCK FALSE
PROPERTIES SharesComputations EveryCallEnds
