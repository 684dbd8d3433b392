SPECIFICATION Spec
CONSTANTS
  src = src
  dst = dst
  Jails <- TwoJails
  Source <- src
  MaxVersion = 1
INVARIANT TypeOK
PROPERTIES RestoredSnapshot FailedRestoreUndone
CHECK_DEADLOCK FALSE
