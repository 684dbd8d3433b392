SPECIFICATION Spec
CONSTANTS
  o1 = o1
  o2 = o2
  Objects <- TwoObjects
  MaxJid = 2
  Vnet = TRUE
  Basejail = TRUE
  Overrides <- NoOverride
  Exclusive = TRUE
INVARIANTS TypeOK ServicesPrepared StacksAccounted
PROPERTIES TeardownComplete NetworkReleased ServiceProvided
SYMMETRY Symmetry
