SPECIFICATION Spec
CONSTANTS
  U16 = 65536
  RangesLimit = 1
  WaitCount = 3
  MinPn = 0
  MaxPn = 6
  MaxStray = 2
INVARIANTS
  TypeOK
  WaitIsTimed
  StateCountsUnacked
  DecodesNewest
PROPERTY
  AckedWithoutAckOnly
