SPECIFICATION Spec
CONSTANTS
  parent = parent
  e1 = e1
  e2 = e2
  Events <- ThreeEvents
  Outer <- parent
  MaxSteps = 3
  MaxChildren = 2
INVARIANTS TypeOK PendingCounted UndoneInReverse NothingForgotten
CHECK_DEADLOCK FALSE
