SPECIFICATION Spec
CONSTANTS
  o1 = o1
  o2 = o2
  Objects <- TwoObjects
  MaxJid = 1
  Vnet = TRUE
  Basejail = FALSE
  Overrides <- NoOverride
  Exclusive = FALSE
PROPERTY LoserLeavesJail
SYMMETRY Symmetry
