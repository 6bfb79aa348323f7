SPECIFICATION FairSpec
CONSTANTS
  Pumps = {p1, p2}
  Ring = 4
  Chunk = 2
  Prime = 2
  Skip = 1
  Rates = {1, 2}
  Wrap = 8
  MaxMade = 5
  MaxStart = 2
  Prompt = TRUE
  Patient = TRUE

  
  
  
PROPERTIES
  
  PumpsWindDown
CHECK_DEADLOCK FALSE
