SPECIFICATION Spec
CONSTANTS
  Tested <- MCRefused
  Reps <- MCReps
  Starts = {}
  NextReps = 1
  Bases <- MCBases
  Nothing = Nothing
INVARIANT
  PrimesPass
CHECK_DEADLOCK FALSE
