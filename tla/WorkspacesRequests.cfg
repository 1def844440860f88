SPECIFICATION MCSpec
CONSTANTS
  None = None
  Threads = {t1, t2}
  Users = {u1, u2, u3}
  Businesses = {b1, b2}
  Limits = {2}
  Trunks = {}
  Names = {}
  Confs = {}
  Blank = None
  Registers = {}
  Logins = {}
  MaxRequests = 3
SYMMETRY Symmetry
CONSTRAINT Overlaps
CHECK_DEADLOCK FALSE
INVARIANTS
  OwnershipIsOne
  LimitIsKept
