CONSTANTS
  Executors = {e1}
  Finalizers = {f1}
  ReconcileAttempts = 2
  MaxFaults = 0
  ReadsFail = FALSE
  OthersClose = TRUE
  Foreign = Foreign
SPECIFICATION PublicationSpec
INVARIANTS PublishesAcceptedHead
CHECK_DEADLOCK FALSE
