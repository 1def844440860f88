SPECIFICATION AssetsSpec
CONSTANTS
  None = None
  Threads = {t1, t2}
  Assets = {k1, k2}
  Slugs = {a, b}
  MaxRequests = 4
SYMMETRY Symmetry
CHECK_DEADLOCK FALSE
INVARIANTS
  RowsAndFilesAgree
  SlugsAreUnique
  NotesAreKept
