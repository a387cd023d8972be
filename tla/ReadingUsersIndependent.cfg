CONSTANTS
  Users = {u1, u2}
  Ids = {i1, i2}
  Dates = {d1}
  Transactions = {t1, t2}
  u1 = u1
  u2 = u2
  i1 = i1
  i2 = i2
  i3 = i3
  d1 = d1
  d2 = d2
  t1 = t1
  t2 = t2
  t3 = t3
  None = None
SPECIFICATION ReadingSpec
SYMMETRY Symmetry
INVARIANT UsersIndependent
CHECK_DEADLOCK FALSE
