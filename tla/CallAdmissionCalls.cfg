SPECIFICATION Spec
CONSTANTS
  None = None
  b1 = b1
  b2 = b2
  t1 = t1
  t2 = t2
  s1 = s1
  s2 = s2
  s3 = s3
  w1 = w1
  w2 = w2
  Sessions = {s1, s2, s3}
  Workers = {w1, w2}
  Businesses <- OneBusiness
  Trunks <- OneTrunk
  OwnTrunks <- OneOwnTrunks
  GlobalTrunks <- NoGlobalTrunks
  AllowGlobal <- OneAllowGlobal
  BusinessMax <- OneBusinessMax
  SystemMax = 0
  TrunkMax <- OneTrunkMax
  MaxAttempts = 1
  ProgressSeen = {"busy"}
  HangupSeen = {"failed"}
SYMMETRY Symmetry
CHECK_DEADLOCK FALSE
INVARIANTS
  BusinessOvershoot
  DialAfterCommit
  RetryChain
PROPERTIES
  CallIdentityIsStable
  ImplementsLedger
