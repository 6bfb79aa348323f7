SPECIFICATION FairSpec
CONSTANTS
  Size = 3
  FileLen = 6
  WriteSizes = {1, 2}
  ReadSizes = {1, 2}
  Targets = {1, 2, 5}
  Partial = {TRUE}
  Patient = TRUE
INVARIANTS
  WindowSound
  WindowIsFile
  
PROPERTIES
  SeekAnswered
  CodecGetsOn
CHECK_DEADLOCK FALSE
