SPECIFICATION Spec
CONSTANTS
  Node = {1, 2, 3, 4, 5}
  None = None
  Worker = {w1, w2}
  Builds <- KeepBuilds
INVARIANTS OnlyCyclesReported
CHECK_DEADLOCK FALSE
