SPECIFICATION Spec
CONSTANTS
  Jails <- Three
  Root = 1
  Graphs <- CircularGraphs
  Commands <- NoCommand
  MaxDepth = 4
INVARIANT StartedOnce
CHECK_DEADLOCK FALSE
