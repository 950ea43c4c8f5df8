SPECIFICATION FairSpec
CONSTANTS
  MaxWindow = 2
  MaxBytes = 4
  MaxReaders = 1
  MaxUpdates = 1
  TimelyAcks = TRUE
  Lens <- MCLens
  Budgets <- MCBudgets
  ReadLens <- MCReadLens
INVARIANT
  AckedDelivered
PROPERTIES
  Delivers
  Terminates
CHECK_DEADLOCK FALSE
