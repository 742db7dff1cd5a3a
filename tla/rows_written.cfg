SPECIFICATION Spec
CONSTANTS
  a1 = a1  a2 = a2
  Actors = {a1, a2}
  MaxRows = 2
  MaxHandlers = 3
SYMMETRY Symmetry
INVARIANTS Sound StoredAsSet ReadAsStored 
PROPERTY ReturnedIsStored
\* The number of handlers is bounded.
CHECK_DEADLOCK FALSE
