SPECIFICATION Spec
CONSTANTS
  Pmts = {p1, p2}
  Entries = 2
  Named = {"charged"}
  Offsets = {0}
  Limits = {0}
  MaxRuns = 1
  MaxEvents = 1
  MaxSteps = 2
  MaxTracks = 3
  MaxNoise = 1
SYMMETRY PmtSymmetry
INVARIANT CentroidCountsOnce
CHECK_DEADLOCK FALSE
