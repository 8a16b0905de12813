CONSTANTS
  Recorders = {b1, b2, b3}
  Openers = {p1, p2}
  Nobody = Nobody
  MaxFiles = 4
  MaxFailures = 2
  OwnerOnlyUmask = TRUE
  s1 = s1
  s2 = s2
  o1 = o1
  o2 = o2
  x1 = x1
  x2 = x2
  q1 = q1
  Sessions = {s1, s2}
  Epochs = {1, 2}
  Owners = {o1, o2}
  Times = {0, 1, 2}
  Confirmations <- MCConfirmations
  NoRow = NoRow
SYMMETRY CallSymmetry
SPECIFICATION MCSpec
INVARIANTS AcknowledgedStays NeverNeedsDeletion OnePermitPerChallenge LedgerVerifies
PROPERTIES WithdrawnStaysWithdrawn
CHECK_DEADLOCK FALSE
