SPECIFICATION Spec
CONSTANTS
  None = None
  menu = menu
  cond = cond
  hook = hook
  again = again
  prompt = prompt
  bye = bye
  Calls = {c1, c2}
  Nodes <- SixNodes
  Edges <- EightEdges
  Start = menu
  NodeType <- SixTypes
  GotoTarget <- SixTargets
  Failing = {prompt}
  Skipped = {c2}
  VariableTests = {"tried=1"}
  Digits = {"1", "9"}
  MaxSteps = 4
  MaxHops = 3
CHECK_DEADLOCK FALSE
INVARIANTS
  InStep
  OneQuestionAtATime
PROPERTIES
  CallEnds
  ImplementsWalk
