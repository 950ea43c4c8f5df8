SPECIFICATION Spec
CONSTANTS
  U16 = 65536
  RangesLimit = 200
  WaitCount = 2
  MinPn = 0
  MaxPn = 4
  MaxStray = 2
PROPERTY
  AckedInTheEnd
