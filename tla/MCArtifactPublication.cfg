CONSTANTS
  Executors = {e1}
  Finalizers = {f1, f2}
  ReconcileAttempts = 2
  MaxFaults = 1
  ReadsFail = FALSE
  OthersClose = TRUE
  Foreign = Foreign
SYMMETRY FinalizerSymmetry
SPECIFICATION PublicationSpec
INVARIANTS IndexIsComplete OkIsPublished ErrorsAreReal
PROPERTIES NoClobber
CHECK_DEADLOCK FALSE
