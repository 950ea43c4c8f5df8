SPECIFICATION Spec
CONSTANTS
  MaxWindow = 2
  MaxBytes = 3
  MaxReaders = 1
  MaxUpdates = 1
  TimelyAcks = FALSE
  Lens <- MCLens
  Budgets <- MCBudgets
  ReadLens <- MCReadLens
INVARIANT
  AckedDelivered
CHECK_DEADLOCK FALSE
