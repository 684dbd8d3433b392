SPECIFICATION Spec
CONSTANTS
  Jails = {a, b}
  MaxPatch = 1
  MaxSnaps = 2
  NoJail = NoJail
  Hardened = {FALSE, TRUE}
INVARIANTS TypeOK VersionWhole
PROPERTIES UpdatesKept JailsWhole
SYMMETRY Alike
CONSTRAINT Claimed
