CONSTANTS
  s1 = s1
  o1 = o1
  x1 = x1
  x2 = x2
  q1 = q1
  Sessions = {s1}
  Epochs = {1, 2}
  Owners = {o1}
  Times = {0, 1, 2}
  Confirmations <- MCConfirmations
  NoRow = NoRow
  Executors = {e1, e2}
  Challenge = q1
  Absent = Absent
  Torn = Torn
SYMMETRY CallSymmetry
SPECIFICATION E2ESpec
INVARIANTS PaidByOwnConsumption PaidIsRecoverable CountsAreTrue
PROPERTIES ImplementsPaidChallenge
CHECK_DEADLOCK FALSE
