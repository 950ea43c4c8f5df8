SPECIFICATION FairSpec
CONSTANTS
  MaxWindow = 3
  MaxBytes = 4
  Lens <- MCLens
  Limits <- MCLimits
INVARIANTS
  TypeOK
  Conservation
  PrefixMaximal
  FinRidesLastByte
  ClosedWhenDelivered
PROPERTY
  TimelyCloseCompletes
