SPECIFICATION Spec
CONSTANTS
  Pmts = {p1, p2}
  Entries = 2
  Named = {"charged"}
  Offsets = {0, 2}
  Limits = {0, 1}
  MaxRuns = 2
  MaxEvents = 2
  MaxSteps = 2
  MaxTracks = 3
  MaxNoise = 1
SYMMETRY PmtSymmetry
INVARIANTS TypeOK OwnPhotons PmtsOnce TracksAsAsked AbortedAtLimit EntriesInOrder StopsAfterSignal
CHECK_DEADLOCK FALSE
