SPECIFICATION Spec
CONSTANTS
  r1 = r1  r2 = r2  f1 = f1  f2 = f2  k = k  a = a  s1 = s1  s2 = s2
  Reporters = {r1}
  Finders = {f1, f2}
  NoOne = NoOne
  Kinds = {k}
  Files = {a}
  NoFile = NoFile
  Subjects = {s1}
  MaxDeployments = 1
INVARIANT FoundOnce
CHECK_DEADLOCK FALSE
