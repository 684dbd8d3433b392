SPECIFICATION FairSpec
CONSTANTS
  o1 = o1
  o2 = o2
  Objects <- TwoObjects
  MaxJid = 1
  Vnet = FALSE
  Basejail = FALSE
  Overrides <- NoOverride
  Exclusive = TRUE
INVARIANTS ServicesPrepared
PROPERTIES NetworkReleased OperationsEnd
