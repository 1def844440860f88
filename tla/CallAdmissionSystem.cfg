SPECIFICATION Spec
CONSTANTS
  None = None
  b1 = b1
  b2 = b2
  t1 = t1
  t2 = t2
  s1 = s1
  s2 = s2
  s3 = s3
  w1 = w1
  w2 = w2
  Sessions = {s1, s2, s3}
  Workers = {w1, w2}
  Businesses <- TwoBusinesses
  Trunks <- TwoTrunks
  OwnTrunks <- TwoOwnTrunks
  GlobalTrunks <- TwoGlobalTrunks
  AllowGlobal <- TwoAllowGlobal
  BusinessMax <- TwoBusinessMax
  SystemMax = 1
  TrunkMax <- TwoTrunkMax
  MaxAttempts = 1
  ProgressSeen = {"busy"}
  HangupSeen = {}
SYMMETRY Symmetry
CHECK_DEADLOCK FALSE
INVARIANTS
  SystemOvershoot
