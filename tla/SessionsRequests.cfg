SPECIFICATION MCSpec
CONSTANTS
  None = None
  Threads = {t1, t2}
  Ids = {k1, k2, k3, k4}
  MaxLogins = 3
  MaxTime = 2
  Window = 1
  MaxAttempts = 2
  Keys = {a1, a2}
  Old = {a1}
  Users = {u1, u2}
  Stuff = {u1}
  Businesses = {b1, b2}
  First = b1
  Second = b2
  MaxRequests = 3
  MaxChanges = 1
SYMMETRY Symmetry
CHECK_DEADLOCK FALSE
INVARIANTS
  SessionsHold
  TriesAreCounted
  CreatorsManage
  VoidServesFew
