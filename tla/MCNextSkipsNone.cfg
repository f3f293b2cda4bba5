SPECIFICATION Spec
CONSTANTS
  Tested = {}
  Reps <- MCReps
  Starts <- MCStarts
  NextReps = 1
  Bases <- MCBases
  Nothing = Nothing
INVARIANT
  NextSkipsNone
CHECK_DEADLOCK FALSE
