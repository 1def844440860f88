SPECIFICATION Spec
CONSTANTS
  None = None
  c1 = c1
  originated = originated
  bridged = bridged
  busy = busy
  ended = ended
  w1 = w1
  w2 = w2
  Listener = listener
  Calls <- OneCall
  Events = {originated, bridged, ended}
  Workers = {w1}
  CallOf <- OneCallOf
  Name <- OneName
  Detail <- OneDetail
  OtherLegs = {ended}
  MaxRecords = 2
SYMMETRY Symmetry
CHECK_DEADLOCK FALSE
INVARIANTS
  RowsAgree
  TakesEffectOnce
PROPERTIES
  MarksAreKept
  ImplementsLedger
