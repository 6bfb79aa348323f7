SPECIFICATION Spec
CONSTANTS
  Files <- MCFiles
  FileSeek <- MCFileSeek
  x = x
  y = y
  Track = {x, y}
  MaxSize = 4
  Seeds = {1}
  Rand <- MCRand
  Modes = {"off", "all", "one", "shuffle"}
  Careful = TRUE
  MaxLines = 3
SYMMETRY Users
INVARIANTS
  WellFormed
  ResumeExact
PROPERTIES
  TrackKept
  MoveShows
  EndsMeant
  NextLands
CHECK_DEADLOCK FALSE
