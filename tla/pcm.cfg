SPECIFICATION FairSpec
CONSTANTS
  PcmFrames = 3
  Chunk = 2
  OutSizes = {1, 2}
  Blocks = {1}
  Rates = {1, 2}
  Wrap = 6
  MaxMade = 7
  MaxStart = 1
INVARIANTS
  
  AudioInOrder
PROPERTIES
  DecoderGetsOn
CHECK_DEADLOCK FALSE
