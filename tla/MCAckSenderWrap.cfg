SPECIFICATION LongSpec
CONSTANTS
  U16 = 65536
  RangesLimit = 200
  WaitCount = 2
  MinPn = 65533
  MaxPn = 65539
  MaxStray = 2
INVARIANT
  SurvivesConversion
