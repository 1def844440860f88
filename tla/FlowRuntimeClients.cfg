SPECIFICATION MCSpec
CONSTANTS
  None = None
  menu = menu
  cond = cond
  hook = hook
  again = again
  prompt = prompt
  bye = bye
  astray = astray
  Calls = {c1}
  Threads = {t1, t2}
  Nodes <- SevenNodes
  Edges <- EightEdges
  Start = menu
  NodeType <- SevenTypes
  GotoTarget <- SevenTargets
  Failing = {menu, prompt}
  Skipped = {}
  VariableTests = {}
  Reports <- SomeReports
  Claims = {None, prompt, gone}
  gone = gone
  MaxHops = 2
  From = "n"
  Pool <- EdgePool
  Results <- SomeResults
SYMMETRY ThreadSymmetry
INVARIANTS
  RestsWhereItStops
  BestFitIsChosen
PROPERTIES
  OthersDoNotMatter
