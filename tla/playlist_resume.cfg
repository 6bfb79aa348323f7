SPECIFICATION Spec
CONSTANTS
  Files <- MCFiles
  FileSeek <- MCFileSeek
  x = x
  y = y
  Track = {x, y}
  MaxSize = 4
  Seeds = {1}
  Rand <- MCRand
  Modes = {"off", "all", "one", "shuffle"}
  Careful = FALSE
  MaxLines = 3
SYMMETRY Users
INVARIANTS
  ResumeExact
CHECK_DEADLOCK FALSE
