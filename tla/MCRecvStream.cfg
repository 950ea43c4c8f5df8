SPECIFICATION Spec
CONSTANTS
  MaxWindow = 3
  MaxReaders = 2
  MaxUpdates = 2
  MaxTotal = 5
  ReadLens <- MCReadLens
INVARIANTS
  TypeOK
  OnlyPeerBytes
  WholeStream
  ParkedReads
PROPERTY
  WindowMoves
