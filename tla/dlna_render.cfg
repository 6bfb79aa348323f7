\* Two commands of a controller that waits until the first is taken up; a
\* URI may be set before the first of them.
SPECIFICATION FairSpec
CONSTANTS
  Om = om
  Dm = dm
  Ui = ui
  Free = free
  MaxCmd = 2
  Patient = TRUE
  Timely = TRUE
  Smooth = TRUE
INVARIANTS
  EngineSound
  
PROPERTIES
  
  
  OutputYields
