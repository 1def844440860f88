SPECIFICATION Spec
CONSTANTS
  None = None
  Threads = {t1, t2}
  Trunks = {k1, k2}
  Businesses = {w}
  Names = {a, b}
  Blank = b
  Confs = {reg, ip}
  Registers = {reg}
  Logins = {}
  MaxRequests = 3
CONSTRAINTS
  OneChange
  Creations
  OneTrunk
  LastApplies
SYMMETRY Symmetry
CHECK_DEADLOCK FALSE
INVARIANTS
  TablesAreInOrder
  StatusIsTrue
  RollbackKeepsTheRow
