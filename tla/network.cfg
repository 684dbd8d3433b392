SPECIFICATION Spec
CONSTANTS
  Nics = {n1, n2}
  MaxJid = 2
  Bridges <- AllBridges
INVARIANTS TypeOK Connected Filtered NothingStays
SYMMETRY Alike
CHECK_DEADLOCK FALSE
