SPECIFICATION Spec
CONSTANTS
  PacketRoom = 6
  DataHeader = 2
  FullBelow = 3
  LimitSize = 1
  AckSize = 4
  HeaderSize = 1
  InitialWindow = 10
  Mtu = 2
  InitialRtt = 12
  MaxAckDelay = 8
  Rate = 7
  PacketTime = 8
  Lens <- MCLens
  MaxData = 5
  MaxEmpties = 1
  MaxLimits = 1
  MaxAckOf = 1
  MaxPackets = 8
INVARIANTS TypeOK PacketsFit PackedOnce ResolvedOnce WindowJustified RttJustified
PROPERTIES ReducedOncePerFlight AllReported
CHECK_DEADLOCK FALSE
