SPECIFICATION Spec
CONSTANTS
  None = None
  n1 = n1
  n2 = n2
  e1 = e1
  e2 = e2
  Threads = {t1, t2}
  Flows = {f1, f2}
  NodeIds = {n1, n2}
  EdgeIds = {e1, e2}
  Kinds = {"hangup", "gather_input"}
  Conditions = {"timeout", "invalid_input"}
  Payloads <- OnePayload
  f1 = f1
  f2 = f2
  MaxRequests <- OnlyTheSecond
SYMMETRY ThreadSymmetry
CONSTRAINT FirstComesFirst
CHECK_DEADLOCK FALSE
INVARIANTS
  VersionsReplaceEachOther
  GraphsAreSound
PROPERTIES
  ImplementsReleases
