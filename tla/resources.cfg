SPECIFICATION Spec
CONSTANTS
  Inputs <- AllInputs
  UserInputs <- AllUserInputs
  Edits <- AllEdits
  MaxKeys = 2
  MaxChanges = 1
  o1 = o1
  o2 = o2
  Directories <- AllDirectories
  Objects <- TwoObjects
  Requests <- AllRequests
  Destinations <- DataDirectory
  Hashed <- HashDirectory
  Tabbed <- TabDirectory
  Sources <- InnerSource
  BaseDirs <- Bin
  Files <- AllFiles
  Names <- TwoNames
  MaxLines = 2
  MaxRenames = 1
  p1 = p1
  p2 = p2
  p3 = p3
  Pools <- ThreePools
  NoPool = NoPool
SYMMETRY Symmetry
INVARIANTS TypeOK ConfigReadsBack NotStacked FstabReadsBack OneActive
CHECK_DEADLOCK FALSE
