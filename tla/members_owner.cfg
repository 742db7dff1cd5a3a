SPECIFICATION FairSpec
CONSTANTS
  u1 = u1  u2 = u2  root = root  t1 = t1  t2 = t2
  Users = {u1, root}
  Admins = {root}
  Nobody = Nobody
  Slots = {t1, t2}
INVARIANT OwnerStays
 
