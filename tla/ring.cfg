SPECIFICATION FairSpec
CONSTANTS
  Size = 4
  ReqSize = 3
  WriteSizes = {1, 2, 3, 4}
  ReadSizes = {2, 4}
  MaxSent = 7
  Wrap = 16
INVARIANTS
  SourceInOrder
  InsideReqBuf
PROPERTIES
  RingIsFifo
  BlockLeaves
CHECK_DEADLOCK FALSE
