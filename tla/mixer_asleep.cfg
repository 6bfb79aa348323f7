SPECIFICATION Spec
CONSTANTS
  Channels = {c1, c2}
  Users = {u1, u2}
  Chunks = {1, 3}
  Frames = {1, 2}
  MaxIdle = 4
  MaxGiven = 3
  Alone = TRUE
  Prompt = FALSE
  Fed = TRUE
SYMMETRY Symmetric
INVARIANTS
  ActiveRuns
CHECK_DEADLOCK FALSE
