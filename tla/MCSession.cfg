SPECIFICATION Spec
CONSTANTS
  HeadLen = 4
  ChunkLen = 2
  Wrap = 4
  NoFile = NoFile
  Junk <- MCJunk
  MaxStreams = 3
  Transfers <- MCTransfers
INVARIANTS TypeOK AcceptedOnce ClosedMeansReceived FileIsSent
PROPERTIES  SenderFinishes
CHECK_DEADLOCK FALSE
