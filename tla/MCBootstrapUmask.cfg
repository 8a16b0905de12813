CONSTANTS
  Recorders = {b1, b2}
  Openers = {o1}
  Nobody = Nobody
  MaxFiles = 3
  MaxFailures = 1
  OwnerOnlyUmask = FALSE
SPECIFICATION BootSpec
INVARIANTS NeverNeedsDeletion
CHECK_DEADLOCK FALSE
