SPECIFICATION FairSpec
CONSTANTS
  Jails <- Four
  Root = 1
  Graphs <- AcyclicGraphs4
  Commands <- Either
  MaxDepth = 5
INVARIANTS TypeOK DependantsRun NothingLeft StopsFirst
PROPERTIES StopsOwn StartEnds
CHECK_DEADLOCK FALSE
